---- MODULE Spec2Model ----
(***************************************************************************)
(* A model of the AstrBot PR test harness (scripts/pr_test_env.sh, driven  *)
(* by the Makefile) and of the dashboard's Skills component                *)
(* (dashboard/src/components/extension/SkillsSection.vue).                 *)
(*                                                                         *)
(* ScriptSpec is the shell script: the option-parsing loop consumes one    *)
(* command-line word (or an option and its value) per step, then the steps *)
(* run in the order of the file under `set -e`.                            *)
(***************************************************************************)
EXTENDS Integers, Sequences, FiniteSets, TLC

\* ------------------------------------------------------------------------
\* Bounds
\* ------------------------------------------------------------------------

\* The longest command line given to pr_test_env.sh (words).
MaxArgs == 4

\* run_smoke_test: `for _ in $(seq 1 60)`.
MaxProbes == 60

\* The number of user events (clicks, selections) given to the Skills component.
MaxCalls == 3

\* The number of user events that concern the Neo panel (its handlers' calls,
\* the switches between the local and the Neo panel).
MaxNeoCalls == 1

\* ------------------------------------------------------------------------
\* scripts/pr_test_env.sh: state
\* ------------------------------------------------------------------------

VARIABLES
    PROFILE,        \* "neo" | "full" | a rejected value
    RUN_SYNC,       \* BOOLEAN
    RUN_LINT,       \* BOOLEAN
    RUN_SMOKE,      \* BOOLEAN
    RUN_DASHBOARD,  \* BOOLEAN
    pc,             \* the script's position
    status,         \* the script's exit status, -1 while it runs
    argc,           \* command-line words consumed so far
    given,          \* the options the parsing loop has accepted so far
    lastDashOpt,    \* the last of --with-dashboard / --no-dashboard accepted
    rejected,       \* the word at which the parsing loop ended the script, or ""
    trace,          \* the commands executed so far, in order, each with its result
    probes,         \* readiness probes (curl) made by run_smoke_test
    probeOk,        \* a readiness probe has succeeded
    app,            \* the application process: "none" | "running" | "exited" | "killed"
    smoke_log,      \* the temporary log file exists
    smokeRet        \* run_smoke_test's return value, -1 before it returns

cfgVars   == <<PROFILE, RUN_SYNC, RUN_LINT, RUN_SMOKE, RUN_DASHBOARD>>
argVars   == <<argc, given, lastDashOpt, rejected>>
smokeVars == <<probes, probeOk, app, smoke_log, smokeRet>>
scriptVars == <<cfgVars, argVars, smokeVars, pc, status, trace>>

\* ------------------------------------------------------------------------
\* Makefile: state of one `make worktree-add ...` run
\* ------------------------------------------------------------------------

VARIABLES
    MAKECMDGOALS,   \* the goals of the command line, in order
    BRANCH,         \* make variable: [defined, value]
    BASE,           \* make variable: [defined, value]
    HEAD,           \* the branch checked out where make is run
    makePc,         \* "shell" | "read" | "recipe" | "done"
    makeOut         \* what the run did: nothing yet, $(error ...), or git worktree add

makeVars == <<MAKECMDGOALS, BRANCH, BASE, HEAD, makePc, makeOut>>

\* ------------------------------------------------------------------------
\* SkillsSection.vue: state (setup(), lines 342-371)
\* ------------------------------------------------------------------------

VARIABLES
    mode,           \* "local" | "neo"
    skills,         \* skills.value: the skill objects listed, in order
    active,         \* skill.active of every skill object made so far
    loading,
    runtime,
    sandboxCache,   \* [ready, count]
    uploading,
    uploadDialog,
    uploadFile,     \* "null" | "empty_array" | a file
    itemLoading,    \* itemLoading[name]; a missing key reads as false
    deleteDialog,
    deleting,
    skillToDelete,  \* a skill object, or NoSkill for null
    snackbar,       \* [show, message, color]
    neoLoading,
    neoCandidates,
    neoReleases,
    candidatePromoteLoading,  \* the keys that are true
    neoEnabled,
    neoUnavailableMessage,
    reqs,           \* HTTP requests in flight, each with what awaits it
    joins,          \* Promise.all calls that have not settled every member
    nextId,         \* the next request (or Promise.all) number
    mounted,        \* onMounted has run
    calls,          \* user events so far
    neoCalls,       \* the user events that concerned the Neo panel so far
    last,           \* the latest event
    latestOk,       \* history: among the GET /api/skills issued since one was last
                    \* in flight alone, the latest issued that was answered, and
                    \* the payload it was answered with
    confirmed       \* history: the names of the skill last passed to confirmDelete
                    \* and of the last one passed that was no sandbox preset

uiVars == <<mode, skills, active, loading, runtime, sandboxCache, uploading,
            uploadDialog, uploadFile, itemLoading, deleteDialog, deleting,
            skillToDelete, snackbar, neoLoading, neoCandidates, neoReleases,
            candidatePromoteLoading, neoEnabled, neoUnavailableMessage, reqs,
            joins, nextId, mounted, calls, neoCalls, last, latestOk, confirmed>>

vars == <<scriptVars, uiVars, makeVars>>

\* A failing command's exit status: any non-zero value (two stand for all).
FailStatuses == {1, 2}

\* The words of the `-h | --help` arm (line 63).
HelpWords == {"-h", "--help"}

\* Words that match no arm of the `case "$1"` (lines 67-71).
UnknownWords == {"neo", "full", "bogus"}

\* What `${2:-}` can be after --profile: a word, or "" when there is none.
ProfileValues == {"neo", "full", "bogus", "--skip-sync", ""}

ScriptInit ==
    /\ PROFILE = "neo"
    /\ RUN_SYNC = TRUE
    /\ RUN_LINT = TRUE
    /\ RUN_SMOKE = TRUE
    /\ RUN_DASHBOARD = FALSE
    /\ pc = "parse"
    /\ status = -1
    /\ argc = 0
    /\ given = {}
    /\ lastDashOpt = "none"
    /\ rejected = ""
    /\ trace = <<>>
    /\ probes = 0
    /\ probeOk = FALSE
    /\ app = "none"
    /\ smoke_log = FALSE
    /\ smokeRet = -1

\* `exit n` (also what `set -e` does when a command fails with status n).
Exit(n) ==
    /\ pc' = "exited"
    /\ status' = n

\* Mutant of RunCommand: the script without `set -e` goes on after a failure.
RunCommandNoErrexit(cmd, ok, st, next) ==
    /\ trace' = Append(trace, [cmd |-> cmd, ok |-> ok])
    /\ pc' = next
    /\ UNCHANGED status

\* A command of the script run under `set -e`: it is recorded in the trace;
\* when it fails the script ends with the command's status, otherwise the
\* script goes on at `next`.
RunCommand(cmd, ok, st, next) ==
    /\ trace' = Append(trace, [cmd |-> cmd, ok |-> ok])
    /\ IF ok
         THEN /\ pc' = next
              /\ UNCHANGED status
         ELSE Exit(st)

\* ------------------------------------------------------------------------
\* Option parsing (lines 33-73)
\* ------------------------------------------------------------------------

\* Mutant of ParseProfile: the value is not validated.
ParseProfileUnchecked ==
    /\ pc = "parse"
    /\ \E v \in ProfileValues :
          /\ argc + (IF v = "" THEN 1 ELSE 2) <= MaxArgs
          /\ PROFILE' = v
          /\ argc' = argc + (IF v = "" THEN 1 ELSE 2)
          /\ given' = given \cup {"--profile"}
    /\ UNCHANGED <<RUN_SYNC, RUN_LINT, RUN_SMOKE, RUN_DASHBOARD, lastDashOpt,
                   rejected, pc, status, smokeVars, trace>>

\* --profile) PROFILE="${2:-}"; a value other than neo and full: exit 1
ParseProfile ==
    /\ pc = "parse"
    /\ \E v \in ProfileValues :
          /\ argc + (IF v = "" THEN 1 ELSE 2) <= MaxArgs
          /\ PROFILE' = v
          /\ IF v # "neo" /\ v # "full"
               THEN /\ Exit(1)
                    /\ rejected' = "--profile"
                    /\ argc' = argc + 1
                    /\ UNCHANGED given
               ELSE /\ argc' = argc + 2
                    /\ given' = given \cup {"--profile"}
                    /\ UNCHANGED <<pc, status, rejected>>
    /\ UNCHANGED <<RUN_SYNC, RUN_LINT, RUN_SMOKE, RUN_DASHBOARD, lastDashOpt,
                   smokeVars, trace>>

\* --with-dashboard) RUN_DASHBOARD=true
ParseWithDashboard ==
    /\ pc = "parse"
    /\ argc < MaxArgs
    /\ RUN_DASHBOARD' = TRUE
    /\ argc' = argc + 1
    /\ given' = given \cup {"--with-dashboard"}
    /\ lastDashOpt' = "--with-dashboard"
    /\ UNCHANGED <<PROFILE, RUN_SYNC, RUN_LINT, RUN_SMOKE, rejected, smokeVars,
                   pc, status, trace>>

\* --skip-sync) RUN_SYNC=false
ParseSkipSync ==
    /\ pc = "parse"
    /\ argc < MaxArgs
    /\ RUN_SYNC' = FALSE
    /\ argc' = argc + 1
    /\ given' = given \cup {"--skip-sync"}
    /\ UNCHANGED <<PROFILE, RUN_LINT, RUN_SMOKE, RUN_DASHBOARD, lastDashOpt,
                   rejected, smokeVars, pc, status, trace>>

\* Mutant of ParseSkipLint: the arm also switches the smoke test off.
ParseSkipLintAlsoSmoke ==
    /\ pc = "parse"
    /\ argc < MaxArgs
    /\ RUN_LINT' = FALSE
    /\ RUN_SMOKE' = FALSE
    /\ argc' = argc + 1
    /\ given' = given \cup {"--skip-lint"}
    /\ UNCHANGED <<PROFILE, RUN_SYNC, RUN_DASHBOARD, lastDashOpt, rejected,
                   smokeVars, pc, status, trace>>

\* --skip-lint) RUN_LINT=false
ParseSkipLint ==
    /\ pc = "parse"
    /\ argc < MaxArgs
    /\ RUN_LINT' = FALSE
    /\ argc' = argc + 1
    /\ given' = given \cup {"--skip-lint"}
    /\ UNCHANGED <<PROFILE, RUN_SYNC, RUN_SMOKE, RUN_DASHBOARD, lastDashOpt,
                   rejected, smokeVars, pc, status, trace>>

\* --skip-smoke) RUN_SMOKE=false
ParseSkipSmoke ==
    /\ pc = "parse"
    /\ argc < MaxArgs
    /\ RUN_SMOKE' = FALSE
    /\ argc' = argc + 1
    /\ given' = given \cup {"--skip-smoke"}
    /\ UNCHANGED <<PROFILE, RUN_SYNC, RUN_LINT, RUN_DASHBOARD, lastDashOpt,
                   rejected, smokeVars, pc, status, trace>>

\* --no-dashboard) RUN_DASHBOARD=false
ParseNoDashboard ==
    /\ pc = "parse"
    /\ argc < MaxArgs
    /\ RUN_DASHBOARD' = FALSE
    /\ argc' = argc + 1
    /\ given' = given \cup {"--no-dashboard"}
    /\ lastDashOpt' = "--no-dashboard"
    /\ UNCHANGED <<PROFILE, RUN_SYNC, RUN_LINT, RUN_SMOKE, rejected, smokeVars,
                   pc, status, trace>>

\* -h | --help) usage; exit 0
ParseHelp ==
    /\ pc = "parse"
    /\ argc < MaxArgs
    /\ \E w \in HelpWords :
          /\ rejected' = w
          /\ argc' = argc + 1
          /\ Exit(0)
    /\ UNCHANGED <<cfgVars, given, lastDashOpt, smokeVars, trace>>

\* *) echo "Unknown option: $1"; usage; exit 1
ParseUnknown ==
    /\ pc = "parse"
    /\ argc < MaxArgs
    /\ \E w \in UnknownWords :
          /\ rejected' = w
          /\ argc' = argc + 1
          /\ Exit(1)
    /\ UNCHANGED <<cfgVars, given, lastDashOpt, smokeVars, trace>>

\* Lines 75-77: the full profile's dashboard default.
FullProfileDashboard(profile, runDashboard) ==
    IF profile = "full" /\ runDashboard = FALSE THEN TRUE ELSE runDashboard

\* The loop ends (no word is left); lines 75-83.
ParseDone ==
    /\ pc = "parse"
    /\ RUN_DASHBOARD' = FullProfileDashboard(PROFILE, RUN_DASHBOARD)
    /\ pc' = "sync"
    /\ UNCHANGED <<PROFILE, RUN_SYNC, RUN_LINT, RUN_SMOKE, argVars, smokeVars,
                   status, trace>>

\* ------------------------------------------------------------------------
\* The steps (lines 85-171), each command under `set -e`
\* ------------------------------------------------------------------------

\* Lines 85-88: uv sync --group dev
Sync ==
    /\ pc = "sync"
    /\ IF RUN_SYNC
         THEN \E ok \in BOOLEAN, st \in FailStatuses :
                 RunCommand("uv_sync", ok, st, "prepare")
         ELSE /\ pc' = "prepare"
              /\ UNCHANGED <<status, trace>>
    /\ UNCHANGED <<cfgVars, argVars, smokeVars>>

\* Lines 90-93: mkdir -p data/...; the exports cannot fail.
Prepare ==
    /\ pc = "prepare"
    /\ \E ok \in BOOLEAN, st \in FailStatuses :
          RunCommand("mkdir", ok, st, "ruff_format")
    /\ UNCHANGED <<cfgVars, argVars, smokeVars>>

\* Lines 95-97: uv run ruff format --check .
LintFormat ==
    /\ pc = "ruff_format"
    /\ IF RUN_LINT
         THEN \E ok \in BOOLEAN, st \in FailStatuses :
                 RunCommand("ruff_format", ok, st, "ruff_check")
         ELSE /\ pc' = "pytest"
              /\ UNCHANGED <<status, trace>>
    /\ UNCHANGED <<cfgVars, argVars, smokeVars>>

\* Lines 98-100: uv run ruff check .
LintCheck ==
    /\ pc = "ruff_check"
    /\ \E ok \in BOOLEAN, st \in FailStatuses :
          RunCommand("ruff_check", ok, st, "pytest")
    /\ UNCHANGED <<cfgVars, argVars, smokeVars>>

\* Mutant of PytestCommand: the branches are swapped.
PytestCommandSwapped(profile) ==
    IF profile = "neo" THEN "pytest_full_suite" ELSE "pytest_neo_tests"

\* Lines 103-114: the pytest command line chosen by the profile.
PytestCommand(profile) ==
    IF profile = "neo" THEN "pytest_neo_tests" ELSE "pytest_full_suite"

\* Lines 102-114
Pytest ==
    /\ pc = "pytest"
    /\ \E ok \in BOOLEAN, st \in FailStatuses :
          RunCommand(PytestCommand(PROFILE), ok, st, "smoke")
    /\ UNCHANGED <<cfgVars, argVars, smokeVars>>

\* run_smoke_test returns r to line 158; under set -e a non-zero return ends
\* the script with that status.
SmokeReturn(r) ==
    /\ smokeRet' = r
    /\ trace' = Append(trace, [cmd |-> "run_smoke_test", ok |-> (r = 0)])
    /\ IF r = 0
         THEN /\ pc' = "dashboard"
              /\ UNCHANGED status
         ELSE Exit(r)

\* Lines 157-159 and 117-120: run_smoke_test is called when RUN_SMOKE; it
\* returns 1 at once when curl is missing.
SmokeEnter ==
    /\ pc = "smoke"
    /\ IF RUN_SMOKE
         THEN \E hasCurl \in BOOLEAN :
                 IF hasCurl
                   THEN /\ pc' = "smoke_start"
                        /\ UNCHANGED <<status, trace, smokeRet>>
                   ELSE SmokeReturn(1)
         ELSE /\ pc' = "dashboard"
              /\ UNCHANGED <<status, trace, smokeRet>>
    /\ UNCHANGED <<cfgVars, argVars, probes, probeOk, app, smoke_log>>

\* Lines 122-128: mktemp (its failure ends the script under set -e), then
\* `uv run main.py >"$smoke_log" 2>&1 &`.
SmokeStart ==
    /\ pc = "smoke_start"
    /\ \E mk \in BOOLEAN, st \in FailStatuses :
          IF mk
            THEN /\ smoke_log' = TRUE
                 /\ app' = "running"
                 /\ trace' = Append(trace, [cmd |-> "uv_run_main", ok |-> TRUE])
                 /\ pc' = "smoke_poll"
                 /\ UNCHANGED status
            ELSE /\ trace' = Append(trace, [cmd |-> "run_smoke_test", ok |-> FALSE])
                 /\ Exit(st)
                 /\ UNCHANGED <<smoke_log, app>>
    /\ UNCHANGED <<cfgVars, argVars, probes, probeOk, smokeRet>>

\* Mutant of SmokePoll: the loop bound is off by one.
SmokePollOffByOne ==
    /\ pc = "smoke_poll"
    /\ probes <= MaxProbes
    /\ probes' = probes + 1
    /\ \E curlOk \in BOOLEAN, alive \in BOOLEAN :
          IF curlOk
            THEN /\ probeOk' = TRUE
                 /\ app' = "killed"
                 /\ smoke_log' = FALSE
                 /\ SmokeReturn(0)
            ELSE IF ~alive
              THEN /\ app' = "exited"
                   /\ smoke_log' = FALSE
                   /\ SmokeReturn(1)
                   /\ UNCHANGED probeOk
              ELSE UNCHANGED <<probeOk, app, smoke_log, smokeRet, pc, status,
                               trace>>
    /\ UNCHANGED <<cfgVars, argVars>>

\* Mutant of SmokePoll: an exited process does not end the loop.
SmokePollKeepsPolling ==
    /\ pc = "smoke_poll"
    /\ probes < MaxProbes
    /\ probes' = probes + 1
    /\ \E curlOk \in BOOLEAN, alive \in BOOLEAN :
          IF curlOk
            THEN /\ probeOk' = TRUE
                 /\ app' = "killed"
                 /\ smoke_log' = FALSE
                 /\ SmokeReturn(0)
            ELSE /\ app' = IF alive /\ app = "running" THEN "running" ELSE "exited"
                 /\ UNCHANGED <<probeOk, smoke_log, smokeRet, pc, status, trace>>
    /\ UNCHANGED <<cfgVars, argVars>>

\* Lines 130-147: one iteration of the polling loop: curl, then `kill -0`
\* (the process may have exited by then), then sleep 1.
SmokePoll ==
    /\ pc = "smoke_poll"
    /\ probes < MaxProbes
    /\ probes' = probes + 1
    /\ \E curlOk \in BOOLEAN, alive \in BOOLEAN :
          IF curlOk
            THEN /\ probeOk' = TRUE
                 /\ app' = "killed"
                 /\ smoke_log' = FALSE
                 /\ SmokeReturn(0)
            ELSE IF ~alive
              THEN /\ app' = "exited"
                   /\ smoke_log' = FALSE
                   /\ SmokeReturn(1)
                   /\ UNCHANGED probeOk
              ELSE UNCHANGED <<probeOk, app, smoke_log, smokeRet, pc, status,
                               trace>>
    /\ UNCHANGED <<cfgVars, argVars>>

\* Mutant of SmokeTimeout: the timeout path without kill, wait and rm -f.
SmokeTimeoutLeavesApp ==
    /\ pc = "smoke_poll"
    /\ probes = MaxProbes
    /\ SmokeReturn(1)
    /\ UNCHANGED <<cfgVars, argVars, probes, probeOk, app, smoke_log>>

\* Lines 149-154: the loop ended without a successful probe.
SmokeTimeout ==
    /\ pc = "smoke_poll"
    /\ probes = MaxProbes
    /\ app' = "killed"
    /\ smoke_log' = FALSE
    /\ SmokeReturn(1)
    /\ UNCHANGED <<cfgVars, argVars, probes, probeOk>>

\* Lines 161-165: the dashboard build needs pnpm; without it, exit 1.
DashboardCheck ==
    /\ pc = "dashboard"
    /\ IF RUN_DASHBOARD
         THEN \E hasPnpm \in BOOLEAN :
                 RunCommand("command_v_pnpm", hasPnpm, 1, "pnpm_install")
         ELSE /\ pc' = "completed"
              /\ UNCHANGED <<status, trace>>
    /\ UNCHANGED <<cfgVars, argVars, smokeVars>>

\* Line 167: pnpm --dir dashboard install --frozen-lockfile
DashboardInstall ==
    /\ pc = "pnpm_install"
    /\ \E ok \in BOOLEAN, st \in FailStatuses :
          RunCommand("pnpm_install", ok, st, "pnpm_build")
    /\ UNCHANGED <<cfgVars, argVars, smokeVars>>

\* Line 168: pnpm --dir dashboard run build
DashboardBuild ==
    /\ pc = "pnpm_build"
    /\ \E ok \in BOOLEAN, st \in FailStatuses :
          RunCommand("pnpm_build", ok, st, "completed")
    /\ UNCHANGED <<cfgVars, argVars, smokeVars>>

\* Line 171: echo "==> PR checks completed successfully"; the script ends.
Completed ==
    /\ pc = "completed"
    /\ trace' = Append(trace, [cmd |-> "completed_message", ok |-> TRUE])
    /\ Exit(0)
    /\ UNCHANGED <<cfgVars, argVars, smokeVars>>

ScriptNext ==
    \/ ParseProfile /\ UNCHANGED <<uiVars, makeVars>>
    \/ ParseWithDashboard /\ UNCHANGED <<uiVars, makeVars>>
    \/ ParseSkipSync /\ UNCHANGED <<uiVars, makeVars>>
    \/ ParseSkipLint /\ UNCHANGED <<uiVars, makeVars>>
    \/ ParseSkipSmoke /\ UNCHANGED <<uiVars, makeVars>>
    \/ ParseNoDashboard /\ UNCHANGED <<uiVars, makeVars>>
    \/ ParseHelp /\ UNCHANGED <<uiVars, makeVars>>
    \/ ParseUnknown /\ UNCHANGED <<uiVars, makeVars>>
    \/ ParseDone /\ UNCHANGED <<uiVars, makeVars>>
    \/ Sync /\ UNCHANGED <<uiVars, makeVars>>
    \/ Prepare /\ UNCHANGED <<uiVars, makeVars>>
    \/ LintFormat /\ UNCHANGED <<uiVars, makeVars>>
    \/ LintCheck /\ UNCHANGED <<uiVars, makeVars>>
    \/ Pytest /\ UNCHANGED <<uiVars, makeVars>>
    \/ SmokeEnter /\ UNCHANGED <<uiVars, makeVars>>
    \/ SmokeStart /\ UNCHANGED <<uiVars, makeVars>>
    \/ SmokePoll /\ UNCHANGED <<uiVars, makeVars>>
    \/ SmokeTimeout /\ UNCHANGED <<uiVars, makeVars>>
    \/ DashboardCheck /\ UNCHANGED <<uiVars, makeVars>>
    \/ DashboardInstall /\ UNCHANGED <<uiVars, makeVars>>
    \/ DashboardBuild /\ UNCHANGED <<uiVars, makeVars>>
    \/ Completed /\ UNCHANGED <<uiVars, makeVars>>

\* ------------------------------------------------------------------------
\* scripts/pr_test_env.sh: claims
\* ------------------------------------------------------------------------

\* cmd was executed (it is in the trace, whatever its result).
Ran(cmd) == \E i \in DOMAIN trace : trace[i].cmd = cmd

RanPytest == Ran("pytest_neo_tests") \/ Ran("pytest_full_suite")

\* The place of each command in the file.
StepNo(cmd) ==
    CASE cmd = "uv_sync"           -> 1
      [] cmd = "mkdir"             -> 2
      [] cmd = "ruff_format"       -> 3
      [] cmd = "ruff_check"        -> 4
      [] cmd = "pytest_neo_tests"  -> 5
      [] cmd = "pytest_full_suite" -> 5
      [] cmd = "uv_run_main"       -> 6
      [] cmd = "run_smoke_test"    -> 7
      [] cmd = "command_v_pnpm"    -> 8
      [] cmd = "pnpm_install"      -> 9
      [] cmd = "pnpm_build"        -> 10
      [] cmd = "completed_message" -> 11

\* The steps of the script, and whether the options enable each.
Steps ==
    {"uv_sync", "ruff_format", "ruff_check", "pytest_neo_tests",
     "pytest_full_suite", "run_smoke_test", "pnpm_install", "pnpm_build"}

StepEnabled(s) ==
    CASE s = "uv_sync"           -> RUN_SYNC
      [] s = "ruff_format"       -> RUN_LINT
      [] s = "ruff_check"        -> RUN_LINT
      [] s = "pytest_neo_tests"  -> PROFILE = "neo"
      [] s = "pytest_full_suite" -> PROFILE = "full"
      [] s = "run_smoke_test"    -> RUN_SMOKE
      [] s = "pnpm_install"      -> RUN_DASHBOARD
      [] s = "pnpm_build"        -> RUN_DASHBOARD

\* The script has gone past its pytest step without ending there.
PastPytest ==
    \/ pc \in {"smoke", "smoke_start", "smoke_poll", "dashboard",
               "pnpm_install", "pnpm_build", "completed"}
    \/ \E i \in DOMAIN trace : StepNo(trace[i].cmd) > 5

\* The script has gone past its smoke step without ending there.
PastSmoke ==
    \/ pc \in {"dashboard", "pnpm_install", "pnpm_build", "completed"}
    \/ \E i \in DOMAIN trace : StepNo(trace[i].cmd) > 7

\* C1 (as claimed): when --no-dashboard is the dashboard option in effect
\* (no --with-dashboard follows it), the dashboard build step is never
\* executed, whatever the profile.
C1_NoDashboardNeverBuilds ==
    lastDashOpt = "--no-dashboard" =>
        /\ ~Ran("command_v_pnpm")
        /\ ~Ran("pnpm_install")
        /\ ~Ran("pnpm_build")

\* C2: run_smoke_test is a bounded retry loop. It never makes more than 60
\* probes, all of them after the application was started; once it has
\* returned it makes no further probe; it returns 0 exactly when a probe
\* succeeded and 1 otherwise; and once polling it always returns.
C2_Bounded ==
    /\ probes <= MaxProbes
    /\ probes > 0 => Ran("uv_run_main")
    /\ smokeRet \in {-1, 0, 1}
    /\ probeOk => smokeRet = 0
    /\ smokeRet # -1 => (smokeRet = 0 <=> probeOk)
    /\ smokeRet # -1 => pc \notin {"smoke_start", "smoke_poll"}

C2_BoundedRetryLoop ==
    /\ []C2_Bounded
    /\ [][smokeRet # -1 => probes' = probes]_vars
    /\ (pc = "smoke_poll") ~> (smokeRet # -1)

\* C2 witness: the loop ran out after its 60th failed probe and returned 1.
C2_Witness ==
    /\ probes = MaxProbes
    /\ ~probeOk
    /\ app = "killed"
    /\ smokeRet = 1

\* C3: the commands run in the order of the file; a command runs only after
\* every enabled step before it has run with success; a failing command is
\* the last one and ends the script with a non-zero status; the completion
\* message is printed only after every enabled step succeeded.
C3_LinearOrder ==
    /\ \A i, j \in DOMAIN trace :
          i < j => StepNo(trace[i].cmd) < StepNo(trace[j].cmd)
    /\ \A j \in DOMAIN trace : \A s \in Steps :
          (StepEnabled(s) /\ StepNo(s) < StepNo(trace[j].cmd)) =>
              \E i \in 1..(j - 1) : trace[i].cmd = s /\ trace[i].ok
    /\ \A i \in DOMAIN trace :
          ~trace[i].ok =>
              /\ i = Len(trace)
              /\ pc = "exited"
              /\ status \notin {-1, 0}
    /\ Ran("completed_message") =>
          /\ \A i \in DOMAIN trace : trace[i].ok
          /\ status = 0

\* C3 witness: pytest failed after sync and lint succeeded, and the script
\* ended there.
C3_Witness ==
    /\ Len(trace) = 5
    /\ trace[1].cmd = "uv_sync"
    /\ trace[4].cmd = "ruff_check"
    /\ trace[5].cmd = "pytest_neo_tests"
    /\ ~trace[5].ok
    /\ pc = "exited"

\* C4: a --profile value other than neo and full (also a missing one) and an
\* unknown option end the script with status 1, -h/--help ends it with
\* status 0, and in each case no command of any step has been executed.
C4_RejectsBeforeWork ==
    /\ PROFILE \notin {"neo", "full"} =>
          /\ rejected = "--profile"
          /\ pc = "exited" /\ status = 1
    /\ rejected = "--profile" => PROFILE \notin {"neo", "full"}
    /\ rejected \in UnknownWords => pc = "exited" /\ status = 1
    /\ rejected \in HelpWords => pc = "exited" /\ status = 0
    /\ rejected # "" => trace = <<>> /\ app = "none" /\ probes = 0

\* C4 witness: an unknown option after an accepted one.
C4_Witness ==
    /\ rejected = "bogus"
    /\ "--skip-lint" \in given
    /\ status = 1

SkipFlags == {"--skip-sync", "--skip-lint", "--skip-smoke"}

\* C5: each skip flag disables its own step: the step's commands never run.
\* Without its flag a step is enabled, whatever the other options: once the
\* script is past a step, the step has run exactly when its flag was not
\* given. Accepting a skip flag changes no other setting. pytest has no flag:
\* the script never gets past the pytest step without running it.
C5_Steps ==
    /\ RUN_SYNC <=> "--skip-sync" \notin given
    /\ RUN_LINT <=> "--skip-lint" \notin given
    /\ RUN_SMOKE <=> "--skip-smoke" \notin given
    /\ "--skip-sync" \in given => ~Ran("uv_sync")
    /\ "--skip-lint" \in given => ~Ran("ruff_format") /\ ~Ran("ruff_check")
    /\ "--skip-smoke" \in given =>
          /\ app = "none" /\ probes = 0
          /\ ~Ran("uv_run_main") /\ ~Ran("run_smoke_test")
    /\ Ran("mkdir") => (Ran("uv_sync") <=> "--skip-sync" \notin given)
    /\ RanPytest =>
          /\ Ran("ruff_format") <=> "--skip-lint" \notin given
          /\ Ran("ruff_check") <=> "--skip-lint" \notin given
    /\ PastSmoke => (Ran("uv_run_main") <=> "--skip-smoke" \notin given)
    /\ PastPytest => RanPytest

C5_Frame ==
    \A f \in SkipFlags :
        (f \in given' /\ f \notin given) =>
            /\ UNCHANGED <<PROFILE, RUN_DASHBOARD, lastDashOpt>>
            /\ f # "--skip-sync" => UNCHANGED RUN_SYNC
            /\ f # "--skip-lint" => UNCHANGED RUN_LINT
            /\ f # "--skip-smoke" => UNCHANGED RUN_SMOKE

C5_SkipFlagsOwnStepOnly == []C5_Steps /\ [][C5_Frame]_vars

\* C5 witness: a run with --skip-lint that completed: no ruff command ran,
\* sync, pytest and the smoke test did.
C5_Witness ==
    /\ given = {"--skip-lint"}
    /\ Ran("uv_sync") /\ RanPytest /\ Ran("uv_run_main")
    /\ ~Ran("ruff_format")
    /\ Ran("completed_message")

\* The parsing loop has ended without rejecting the command line.
Accepted == pc # "parse" /\ rejected = ""

\* What C6 says apart from the dashboard: without --profile the profile is
\* neo, pytest runs the neo targets and never the full suite, sync, lint and
\* the smoke test are enabled unless their skip flag is given, and a
\* dashboard build comes after the smoke test and before the completion
\* message.
C6_NeoDefaults ==
    /\ PROFILE = "neo"
    /\ ~Ran("pytest_full_suite")
    /\ PastPytest => Ran("pytest_neo_tests")
    /\ RUN_SYNC <=> "--skip-sync" \notin given
    /\ RUN_LINT <=> "--skip-lint" \notin given
    /\ RUN_SMOKE <=> "--skip-smoke" \notin given
    /\ \A i \in DOMAIN trace :
          trace[i].cmd \in {"pnpm_install", "pnpm_build"} =>
              /\ RUN_SMOKE => \E j \in 1..(i - 1) :
                                 trace[j].cmd = "run_smoke_test" /\ trace[j].ok
              /\ \A j \in DOMAIN trace :
                    trace[j].cmd = "completed_message" => i < j

\* C6 (as claimed): without --profile, the dashboard is built if and only if
\* --with-dashboard was given.
C6_Original ==
    (Accepted /\ "--profile" \notin given) =>
        /\ C6_NeoDefaults
        /\ RUN_DASHBOARD <=> "--with-dashboard" \in given
        /\ Ran("completed_message") =>
              (Ran("pnpm_build") <=> "--with-dashboard" \in given)

\* C6 (amended): without --profile, the dashboard is built if and only if
\* --with-dashboard was given and no --no-dashboard was given after it.
C6_NeoProfileDefault ==
    (Accepted /\ "--profile" \notin given) =>
        /\ C6_NeoDefaults
        /\ RUN_DASHBOARD <=> lastDashOpt = "--with-dashboard"
        /\ Ran("completed_message") =>
              (Ran("pnpm_build") <=> lastDashOpt = "--with-dashboard")

\* C6 witness: no --profile, --with-dashboard: the neo targets ran, then the
\* smoke test, then the dashboard build, then the completion message.
C6_Witness ==
    /\ given = {"--with-dashboard"}
    /\ Ran("pytest_neo_tests")
    /\ Ran("run_smoke_test")
    /\ Ran("pnpm_build")
    /\ Ran("completed_message")

\* ------------------------------------------------------------------------
\* SkillsSection.vue: values
\* ------------------------------------------------------------------------

NoSkill == [gen |-> 0, name |-> "null"]

\* The skills the backend knows, and the source_type it reports for each.
SkillNames == {"a", "s"}

SourceType(name) == IF name = "s" THEN "sandbox_only" ELSE "local_only"

\* res.data.data of GET /api/skills: an array of skills, or an object with
\* skills, runtime and sandbox_cache.
SkillsPayloads ==
    { [array |-> TRUE,
       skills |-> <<[name |-> "a", active |-> TRUE]>>,
       runtime |-> "", cache |-> [ready |-> FALSE, count |-> 0]],
      [array |-> FALSE,
       skills |-> <<[name |-> "a", active |-> FALSE], [name |-> "s", active |-> TRUE]>>,
       runtime |-> "sandbox", cache |-> [ready |-> TRUE, count |-> 1]] }

\* What a POST answers in res.data, or that the request threw.
ApiResponses ==
    { [thrown |-> FALSE, status |-> "ok", message |-> ""],
      [thrown |-> FALSE, status |-> "error", message |-> "server_message"],
      [thrown |-> FALSE, status |-> "error", message |-> ""],
      [thrown |-> TRUE, status |-> "", message |-> ""] }

\* The candidates the backend lists; one has no id.
Candidates == {[id |-> "c1"], [id |-> ""]}

NeoPayloads == {<<>>, <<[id |-> "c1"], [id |-> ""]>>}

\* The releases the backend lists, as sent: is_active and active are "true",
\* "false" or "undefined" (the field is missing).
ReleasePayloads ==
    {<<>>,
     <<[id |-> "r1", is_active |-> "undefined", active |-> "true"],
       [id |-> "r2", is_active |-> "false", active |-> "true"]>>}

Stages == {"canary", "stable"}

Files == {"null", "empty_array", "skill.zip"}

\* provider_settings of GET /api/config/get
ConfigPayloads ==
    { [computer_use_runtime |-> "sandbox", booter |-> "shipyard_neo"],
      [computer_use_runtime |-> "sandbox", booter |-> "other"],
      [computer_use_runtime |-> "local", booter |-> ""] }

\* ------------------------------------------------------------------------
\* SkillsSection.vue: the component's state as one value, so that a handler
\* is an operator from the state before it to the state after it
\* ------------------------------------------------------------------------

Cur ==
    [mode |-> mode, skills |-> skills, active |-> active, loading |-> loading,
     runtime |-> runtime, sandboxCache |-> sandboxCache, uploading |-> uploading,
     uploadDialog |-> uploadDialog, uploadFile |-> uploadFile,
     itemLoading |-> itemLoading, deleteDialog |-> deleteDialog,
     deleting |-> deleting, skillToDelete |-> skillToDelete,
     snackbar |-> snackbar, neoLoading |-> neoLoading,
     neoCandidates |-> neoCandidates, neoReleases |-> neoReleases,
     candidatePromoteLoading |-> candidatePromoteLoading,
     neoEnabled |-> neoEnabled, neoUnavailableMessage |-> neoUnavailableMessage,
     reqs |-> reqs, joins |-> joins, nextId |-> nextId, latestOk |-> latestOk]

Commit(st) ==
    /\ mode' = st.mode
    /\ skills' = st.skills
    /\ active' = st.active
    /\ loading' = st.loading
    /\ runtime' = st.runtime
    /\ sandboxCache' = st.sandboxCache
    /\ uploading' = st.uploading
    /\ uploadDialog' = st.uploadDialog
    /\ uploadFile' = st.uploadFile
    /\ itemLoading' = st.itemLoading
    /\ deleteDialog' = st.deleteDialog
    /\ deleting' = st.deleting
    /\ skillToDelete' = st.skillToDelete
    /\ snackbar' = st.snackbar
    /\ neoLoading' = st.neoLoading
    /\ neoCandidates' = st.neoCandidates
    /\ neoReleases' = st.neoReleases
    /\ candidatePromoteLoading' = st.candidatePromoteLoading
    /\ neoEnabled' = st.neoEnabled
    /\ neoUnavailableMessage' = st.neoUnavailableMessage
    /\ reqs' = st.reqs
    /\ joins' = st.joins
    /\ nextId' = st.nextId
    /\ latestOk' = st.latestOk

\* Lines 342-371: the refs and reactives of setup().
UIInit ==
    /\ mode = "local"
    /\ skills = <<>>
    /\ active = <<>>
    /\ loading = FALSE
    /\ runtime = "local"
    /\ sandboxCache = [ready |-> FALSE, count |-> 0]
    /\ uploading = FALSE
    /\ uploadDialog = FALSE
    /\ uploadFile = "null"
    /\ itemLoading = [n \in SkillNames |-> FALSE]
    /\ deleteDialog = FALSE
    /\ deleting = FALSE
    /\ skillToDelete = NoSkill
    /\ snackbar = [show |-> FALSE, message |-> "", color |-> "success"]
    /\ neoLoading = FALSE
    /\ neoCandidates = <<>>
    /\ neoReleases = <<>>
    /\ candidatePromoteLoading = {}
    /\ neoEnabled = FALSE
    /\ neoUnavailableMessage = ""
    /\ reqs = {}
    /\ joins = <<>>
    /\ nextId = 1
    /\ mounted = FALSE
    /\ calls = 0
    /\ last = [ev |-> "setup"]
    /\ neoCalls = 0
    /\ latestOk = [id |-> 0, some |-> FALSE, payload |-> CHOOSE p \in SkillsPayloads : TRUE]
    /\ confirmed = [passed |-> "null", selected |-> "null"]

\* axios.get / axios.post: the request is in flight until its response
\* comes; `after` is what awaits the promise of the function that sent it.
Send(st, url, arg, after) ==
    [st EXCEPT !.reqs = @ \cup {[id |-> st.nextId, url |-> url, arg |-> arg,
                                 after |-> after]},
               !.nextId = @ + 1]

\* The response to request r has come: r is no longer in flight.
Answered(st, r) == [st EXCEPT !.reqs = @ \ {r}]

\* Lines 409-413
showMessage(st, message, color) ==
    [st EXCEPT !.snackbar = [show |-> TRUE, message |-> message, color |-> color]]

\* Line 444
isSandboxPresetSkill(skill) == SourceType(skill.name) = "sandbox_only"

\* Lines 453-456: fetchSkills up to its await.
fetchSkills(st, after) ==
    Send([st EXCEPT !.loading = TRUE], "GET /api/skills", [none |-> TRUE], after)

\* Lines 604-606: loadNeoAvailability up to its await.
loadNeoAvailability(st, after) ==
    Send(st, "GET /api/config/get", [none |-> TRUE], after)

\* Promise.all([...]) over `n` promises: the group settles when every member
\* is fulfilled or when the first one is rejected.
NewJoin(st, kind, n, after) ==
    [st EXCEPT !.joins = (st.nextId :> [kind |-> kind, pending |-> n,
                                         done |-> FALSE, after |-> after]) @@ @,
               !.nextId = @ + 1]

JoinFrame(gid) == <<[f |-> "join", gid |-> gid]>>

\* Lines 622-625, 578-583 and 587-592: fetchNeoData up to its await; both
\* requests are sent before either is answered.
fetchNeoData(st, after) ==
    LET gid == st.nextId
        s1 == NewJoin([st EXCEPT !.neoLoading = TRUE], "fetchNeoData", 2, after)
        s2 == Send(s1, "GET /api/skills/neo/candidates", [none |-> TRUE], JoinFrame(gid))
    IN  Send(s2, "GET /api/skills/neo/releases", [none |-> TRUE], JoinFrame(gid))

\* The onSuccess callbacks given to handleApiResponse, each with what its
\* closure holds: lines 514-516, 540-542 and 489-493.
onSuccess(st, callback) ==
    CASE callback.f = "toggleSkill" ->
           [st EXCEPT !.active[callback.skill] = callback.nextActive]
      [] callback.f = "deleteSkill" ->
           fetchSkills([st EXCEPT !.deleteDialog = FALSE], <<>>)
      [] callback.f = "uploadSkill" ->
           fetchSkills([st EXCEPT !.uploadDialog = FALSE, !.uploadFile = "null"], <<>>)
      \* lines 689-691 and 706-708
      [] callback.f = "fetchNeoData" -> fetchNeoData(st, <<>>)
      [] callback.f = "none" -> st

\* Lines 465-473
handleApiResponse(st, res, successMessage, failureMessageDefault, callback) ==
    IF res.status = "ok"
      THEN onSuccess(showMessage(st, successMessage, "success"), callback)
      ELSE showMessage(st, IF res.message # "" THEN res.message
                                               ELSE failureMessageDefault, "error")

RECURSIVE Resume(_, _, _)
RECURSIVE JoinSettled(_, _, _)

\* The awaited promise settled (ok: fulfilled): the code that awaits it goes
\* on, up to its next await; `k` is the chain of awaiting functions.
Resume(st, k, ok) ==
    IF k = <<>> THEN st
    ELSE
      LET fr == Head(k)
          rest == Tail(k)
      IN
      CASE fr.f = "join" ->
             JoinSettled(st, fr.gid, ok)
        \* promoteCandidate after `await fetchNeoData()`, lines 674-681
        [] fr.f = "promote_after_neo" ->
             IF fr.stage = "stable"
               THEN fetchSkills(st, <<[f |-> "promote_finally", key |-> fr.key]>> \o rest)
               ELSE Resume([st EXCEPT !.candidatePromoteLoading = @ \ {fr.key}],
                           rest, TRUE)
        \* promoteCandidate after `await fetchSkills()`, lines 679-681
        [] fr.f = "promote_finally" ->
             Resume([st EXCEPT !.candidatePromoteLoading = @ \ {fr.key}], rest, TRUE)
        \* watch(mode) after `await loadNeoAvailability()`, lines 798-800
        [] fr.f = "watch_neo" ->
             IF st.neoEnabled THEN fetchNeoData(st, rest) ELSE Resume(st, rest, TRUE)
        \* refreshCurrentMode after `await loadNeoAvailability()`, lines 785-789
        [] fr.f = "refresh_neo" ->
             IF st.neoEnabled
               THEN fetchNeoData(st, rest)
               ELSE Resume(showMessage(st, "skills.neoRuntimeRequired", "warning"),
                           rest, TRUE)

\* A member of a Promise.all settled.
JoinSettled(st, gid, ok) ==
    LET g == st.joins[gid]
        left == g.pending - 1
        \* the group is forgotten once every member has settled
        drop(s) == IF left = 0
                     THEN [s EXCEPT !.joins = [i \in (DOMAIN @) \ {gid} |-> @[i]]]
                     ELSE [s EXCEPT !.joins[gid] = [g EXCEPT !.pending = left,
                                                             !.done = TRUE]]
    IN
    IF g.done
      THEN drop(st)
      ELSE IF ok /\ left > 0
        THEN [st EXCEPT !.joins[gid].pending = left]
        ELSE
          CASE g.kind = "fetchNeoData" ->
                 \* lines 626-630
                 LET s1 == IF ok THEN st
                                 ELSE showMessage(st, "skills.neoLoadFailed", "error")
                 IN  Resume(drop([s1 EXCEPT !.neoLoading = FALSE]), g.after, TRUE)
            [] g.kind = "onMounted" ->
                 \* lines 808-810
                 IF st.neoEnabled THEN fetchNeoData(drop(st), <<>>)
                                  ELSE drop(st)

\* ------------------------------------------------------------------------
\* SkillsSection.vue: steps. A user event runs its handler up to the
\* handler's first await; a response runs what awaits it up to the next await.
\* ------------------------------------------------------------------------

\* The skill objects a step was about.
EvObjects(ev) ==
    IF ev.ev \in {"toggleSkill", "confirmDelete", "downloadSkill"} THEN {ev.skill}
    ELSE IF ev.ev = "response" /\ ev.url = "POST /api/skills/update"
      THEN {ev.req.arg.skill}
      ELSE {}

\* What no closure, ref or pending request refers to any more is dropped:
\* skill objects that are unreachable, and identifiers that are free again.
Canon(st, ev) ==
    LET keep == {st.skills[i] : i \in DOMAIN st.skills} \cup {st.skillToDelete}
                  \cup {r.arg.skill : r \in {q \in st.reqs :
                                                q.url = "POST /api/skills/update"}}
                  \cup EvObjects(ev)
        ids == {r.id : r \in st.reqs} \cup DOMAIN st.joins \cup {0}
    IN  [st EXCEPT !.active = [o \in keep \cap DOMAIN st.active |-> st.active[o]],
                   !.nextId = 1 + (CHOOSE m \in ids : \A n \in ids : n <= m),
                   !.latestOk.id = IF \E r \in st.reqs : r.url = "GET /api/skills"
                                     THEN @ ELSE 0]

\* The identity of the next list of skill objects.
FreshGen(st) ==
    LET gens == {o.gen : o \in DOMAIN st.active}
    IN  CHOOSE g \in 1..(Cardinality(gens) + 1) :
           g \notin gens /\ \A h \in 1..(g - 1) : h \in gens

UserEvent(ev, st) ==
    /\ mounted
    /\ calls < MaxCalls
    /\ calls' = calls + 1
    /\ last' = ev
    /\ confirmed' = IF ev.ev = "confirmDelete"
                       THEN [passed |-> ev.skill.name,
                             selected |-> IF SourceType(ev.skill.name) = "sandbox_only"
                                            THEN confirmed.selected
                                            ELSE ev.skill.name]
                       ELSE confirmed
    /\ Commit(Canon(st, ev))
    /\ UNCHANGED <<mounted, neoCalls, scriptVars, makeVars>>

\* An event of the Neo panel.
NeoEvent(ev, st) ==
    /\ mounted
    /\ neoCalls < MaxNeoCalls
    /\ neoCalls' = neoCalls + 1
    /\ last' = ev
    /\ Commit(Canon(st, ev))
    /\ UNCHANGED <<mounted, calls, confirmed, scriptVars, makeVars>>

Response(r, out, st) ==
    /\ last' = [ev |-> "response", url |-> r.url, req |-> r, out |-> out]
    /\ Commit(Canon(st, [ev |-> "response", url |-> r.url, req |-> r]))
    /\ UNCHANGED <<mounted, calls, neoCalls, confirmed, scriptVars, makeVars>>

\* As Response, for an answer whose payload `data` the component reads.
ResponseWith(r, out, data, st) ==
    /\ last' = [ev |-> "response", url |-> r.url, req |-> r, out |-> out, data |-> data]
    /\ Commit(Canon(st, [ev |-> "response", url |-> r.url, req |-> r]))
    /\ UNCHANGED <<mounted, calls, neoCalls, confirmed, scriptVars, makeVars>>

\* As Mount, but awaiting the availability check only.
MountAwaitingAvailabilityOnly ==
    /\ ~mounted
    /\ mounted' = TRUE
    /\ last' = [ev |-> "onMounted"]
    /\ LET gid == nextId
           s1 == NewJoin(Cur, "onMounted", 1, <<>>)
           s2 == fetchSkills(s1, <<>>)
       IN  Commit(loadNeoAvailability(s2, JoinFrame(gid)))
    /\ UNCHANGED <<calls, neoCalls, confirmed, scriptVars, makeVars>>

\* Lines 806-811: onMounted up to its await.
Mount ==
    /\ ~mounted
    /\ mounted' = TRUE
    /\ last' = [ev |-> "onMounted"]
    /\ LET gid == nextId
           s1 == NewJoin(Cur, "onMounted", 2, <<>>)
           s2 == fetchSkills(s1, JoinFrame(gid))
       IN  Commit(loadNeoAvailability(s2, JoinFrame(gid)))
    /\ UNCHANGED <<calls, neoCalls, confirmed, scriptVars, makeVars>>

\* The skill objects made from a payload answered to request `gen`.
SkillObjects(payload, gen) ==
    [i \in 1..Len(payload.skills) |-> [gen |-> gen, name |-> payload.skills[i].name]]

\* Lines 415-430: normalizeSkillsPayload; the list it returns becomes
\* skills.value (line 457).
normalizeSkillsPayload(st, payload, gen) ==
    LET objs == SkillObjects(payload, gen)
        made == [o \in {objs[i] : i \in DOMAIN objs} |->
                   (CHOOSE i \in DOMAIN objs : objs[i] = o) ]
        s1 == IF payload.array
                THEN [st EXCEPT !.runtime = "local",
                                !.sandboxCache = [ready |-> FALSE, count |-> 0]]
                ELSE [st EXCEPT !.runtime = IF payload.runtime # "" THEN payload.runtime
                                                                    ELSE "local",
                                !.sandboxCache = payload.cache]
    IN  [s1 EXCEPT !.skills = objs,
                   !.active = [o \in DOMAIN made |-> payload.skills[made[o]].active] @@ @]

\* History: request r was answered with payload.
Fetched(st, r, payload) ==
    IF r.id > st.latestOk.id
      THEN [st EXCEPT !.latestOk = [id |-> r.id, some |-> TRUE, payload |-> payload]]
      ELSE st

\* As SkillsResponse, but a failed request empties the list.
SkillsResponseClearing ==
    \E r \in reqs :
       /\ r.url = "GET /api/skills"
       /\ \E thrown \in BOOLEAN, payload \in SkillsPayloads :
             /\ thrown => payload.array
             /\ LET s0 == Answered(Cur, r)
                    s1 == IF thrown
                            THEN [showMessage(s0, "skills.loadFailed", "error")
                                    EXCEPT !.skills = <<>>]
                            ELSE Fetched(normalizeSkillsPayload(s0, payload, FreshGen(s0)),
                                         r, payload)
                    s2 == [s1 EXCEPT !.loading = FALSE]
                IN  ResponseWith(r, IF thrown THEN "thrown" ELSE "ok", payload,
                                 Resume(s2, r.after, TRUE))

\* Lines 456-462: GET /api/skills answered or failed.
SkillsResponse ==
    \E r \in reqs :
       /\ r.url = "GET /api/skills"
       /\ \E thrown \in BOOLEAN, payload \in SkillsPayloads :
             /\ thrown => payload.array
             /\ LET s0 == Answered(Cur, r)
                    s1 == IF thrown
                            THEN showMessage(s0, "skills.loadFailed", "error")
                            ELSE Fetched(normalizeSkillsPayload(s0, payload, FreshGen(s0)),
                                         r, payload)
                    s2 == [s1 EXCEPT !.loading = FALSE]
                IN  ResponseWith(r, IF thrown THEN "thrown" ELSE "ok", payload,
                                 Resume(s2, r.after, TRUE))

\* Line 795-804: watch(mode), run when mode.value changes.
watchMode(st, nextMode) ==
    IF nextMode = "neo"
      THEN loadNeoAvailability(st, <<[f |-> "watch_neo"]>>)
      ELSE fetchSkills(st, <<>>)

\* Mutant of ConfigResponse: loadNeoAvailability without lines 617-619.
ConfigResponseKeepsMode ==
    \E r \in reqs :
       /\ r.url = "GET /api/config/get"
       /\ \E thrown \in BOOLEAN, cfg \in ConfigPayloads :
             /\ thrown => cfg.computer_use_runtime = "local"
             /\ LET s0 == Answered(Cur, r)
                    enabled == /\ ~thrown
                               /\ cfg.computer_use_runtime = "sandbox"
                               /\ cfg.booter = "shipyard_neo"
                    s1 == [s0 EXCEPT !.neoEnabled = enabled,
                                     !.neoUnavailableMessage = "skills.neoRuntimeRequired"]
                IN  ResponseWith(r, IF thrown THEN "thrown" ELSE "ok", cfg,
                                 Resume(s1, r.after, TRUE))

\* Lines 606-620: GET /api/config/get answered or failed.
ConfigResponse ==
    \E r \in reqs :
       /\ r.url = "GET /api/config/get"
       /\ \E thrown \in BOOLEAN, cfg \in ConfigPayloads :
             /\ thrown => cfg.computer_use_runtime = "local"
             /\ LET s0 == Answered(Cur, r)
                    enabled == /\ ~thrown
                               /\ cfg.computer_use_runtime = "sandbox"
                               /\ cfg.booter = "shipyard_neo"
                    s1 == [s0 EXCEPT !.neoEnabled = enabled,
                                     !.neoUnavailableMessage = "skills.neoRuntimeRequired"]
                    s2 == IF ~enabled /\ s1.mode = "neo"
                            THEN watchMode([s1 EXCEPT !.mode = "local"], "local")
                            ELSE s1
                IN  ResponseWith(r, IF thrown THEN "thrown" ELSE "ok", cfg,
                                 Resume(s2, r.after, TRUE))

\* Lines 583-584: GET /api/skills/neo/candidates answered or failed.
NeoCandidatesResponse ==
    \E r \in reqs :
       /\ r.url = "GET /api/skills/neo/candidates"
       /\ \E thrown \in BOOLEAN, payload \in NeoPayloads :
             /\ thrown => payload = <<>>
             /\ LET s0 == Answered(Cur, r)
                    s1 == IF thrown THEN s0 ELSE [s0 EXCEPT !.neoCandidates = payload]
                IN  Response(r, IF thrown THEN "thrown" ELSE "ok",
                             Resume(s1, r.after, ~thrown))

\* Line 599: is_active: item.is_active ?? item.active ?? false
normalizeRelease(item) ==
    [id |-> item.id,
     is_active |-> IF item.is_active # "undefined" THEN item.is_active = "true"
                   ELSE IF item.active # "undefined" THEN item.active = "true"
                   ELSE FALSE]

\* Lines 592-601: GET /api/skills/neo/releases answered or failed.
NeoReleasesResponse ==
    \E r \in reqs :
       /\ r.url = "GET /api/skills/neo/releases"
       /\ \E thrown \in BOOLEAN, payload \in ReleasePayloads :
             /\ thrown => payload = <<>>
             /\ LET s0 == Answered(Cur, r)
                    s1 == IF thrown THEN s0 ELSE [s0 EXCEPT !.neoReleases =
                                              [i \in DOMAIN payload |-> normalizeRelease(payload[i])]]
                IN  Response(r, IF thrown THEN "thrown" ELSE "ok",
                             Resume(s1, r.after, ~thrown))

\* The skill objects a handler can be given: those listed.
Listed == {skills[i] : i \in DOMAIN skills}

\* Lines 501-512: toggleSkill up to its await.
toggleSkill(st, skill) ==
    IF isSandboxPresetSkill(skill)
      THEN showMessage(st, "skills.sandboxPresetReadonly", "warning")
      ELSE LET nextActive == ~st.active[skill]
           IN  Send([st EXCEPT !.itemLoading[skill.name] = TRUE],
                    "POST /api/skills/update",
                    [name |-> skill.name, active |-> nextActive, skill |-> skill],
                    <<>>)

ToggleSkill ==
    \E skill \in Listed :
       UserEvent([ev |-> "toggleSkill", skill |-> skill], toggleSkill(Cur, skill))

\* As UpdateResponse, but the skill is switched on any answer, whatever its
\* status.
UpdateResponseAnyStatus ==
    \E r \in reqs :
       /\ r.url = "POST /api/skills/update"
       /\ \E res \in ApiResponses :
             LET s0 == Answered(Cur, r)
                 s1 == IF res.thrown
                         THEN showMessage(s0, "skills.updateFailed", "error")
                         ELSE [handleApiResponse(s0, res, "skills.updateSuccess",
                                 "skills.updateFailed", [f |-> "none"])
                                 EXCEPT !.active[r.arg.skill] = r.arg.active]
             IN  Response(r, IF res.thrown THEN "thrown" ELSE res.status,
                          [s1 EXCEPT !.itemLoading[r.arg.name] = FALSE])

\* Lines 513-520: POST /api/skills/update answered or failed.
UpdateResponse ==
    \E r \in reqs :
       /\ r.url = "POST /api/skills/update"
       /\ \E res \in ApiResponses :
             LET s0 == Answered(Cur, r)
                 s1 == IF res.thrown
                         THEN showMessage(s0, "skills.updateFailed", "error")
                         ELSE handleApiResponse(s0, res, "skills.updateSuccess",
                                 "skills.updateFailed",
                                 [f |-> "toggleSkill", skill |-> r.arg.skill,
                                  nextActive |-> r.arg.active])
             IN  Response(r, IF res.thrown THEN "thrown" ELSE res.status,
                          [s1 EXCEPT !.itemLoading[r.arg.name] = FALSE])

\* As confirmDelete, without the refusal of sandbox preset skills.
confirmDeleteUnguarded(st, skill) ==
    [st EXCEPT !.skillToDelete = skill, !.deleteDialog = TRUE]

\* Lines 523-530
confirmDelete(st, skill) ==
    IF isSandboxPresetSkill(skill)
      THEN showMessage(st, "skills.sandboxPresetReadonly", "warning")
      ELSE [st EXCEPT !.skillToDelete = skill, !.deleteDialog = TRUE]

ConfirmDelete ==
    \E skill \in Listed :
       UserEvent([ev |-> "confirmDelete", skill |-> skill], confirmDelete(Cur, skill))

\* Lines 532-538: deleteSkill up to its await.
deleteSkill(st) ==
    IF st.skillToDelete = NoSkill
      THEN st
      ELSE Send([st EXCEPT !.deleting = TRUE], "POST /api/skills/delete",
                [name |-> st.skillToDelete.name], <<>>)

DeleteSkill ==
    /\ mounted
    /\ UserEvent([ev |-> "deleteSkill"], deleteSkill(Cur))

\* Mutant of DeleteResponse: `deleting.value = false` at the end of the try
\* block instead of in a finally.
DeleteResponseNoFinally ==
    \E r \in reqs :
       /\ r.url = "POST /api/skills/delete"
       /\ \E res \in ApiResponses :
             LET s0 == Answered(Cur, r)
                 s1 == IF res.thrown
                         THEN showMessage(s0, "skills.deleteFailed", "error")
                         ELSE [handleApiResponse(s0, res, "skills.deleteSuccess",
                                  "skills.deleteFailed", [f |-> "deleteSkill"])
                                 EXCEPT !.deleting = FALSE]
             IN  Response(r, IF res.thrown THEN "thrown" ELSE res.status, s1)

\* Lines 539-547: POST /api/skills/delete answered or failed.
DeleteResponse ==
    \E r \in reqs :
       /\ r.url = "POST /api/skills/delete"
       /\ \E res \in ApiResponses :
             LET s0 == Answered(Cur, r)
                 s1 == IF res.thrown
                         THEN showMessage(s0, "skills.deleteFailed", "error")
                         ELSE handleApiResponse(s0, res, "skills.deleteSuccess",
                                 "skills.deleteFailed",
                                 [f |-> "deleteSkill"])
             IN  Response(r, IF res.thrown THEN "thrown" ELSE res.status,
                          [s1 EXCEPT !.deleting = FALSE])

\* Mutant of downloadSkill: without the refusal of lines 551-554.
downloadSkillUnguarded(st, skill) ==
    Send([st EXCEPT !.itemLoading[skill.name] = TRUE],
         "GET /api/skills/download", [name |-> skill.name], <<>>)

\* Lines 550-560: downloadSkill up to its await.
downloadSkill(st, skill) ==
    IF isSandboxPresetSkill(skill)
      THEN showMessage(st, "skills.sandboxPresetReadonly", "warning")
      ELSE Send([st EXCEPT !.itemLoading[skill.name] = TRUE],
                "GET /api/skills/download", [name |-> skill.name], <<>>)

DownloadSkill ==
    \E skill \in Listed :
       UserEvent([ev |-> "downloadSkill", skill |-> skill], downloadSkill(Cur, skill))

\* Lines 561-575: GET /api/skills/download answered or failed; whatever is
\* answered is saved as a file, and an error thrown on the way is reported.
DownloadResponse ==
    \E r \in reqs :
       /\ r.url = "GET /api/skills/download"
       /\ \E thrown \in BOOLEAN :
             LET s0 == Answered(Cur, r)
                 s1 == IF thrown
                         THEN showMessage(s0, "skills.downloadFailed", "error")
                         ELSE showMessage(s0, "skills.downloadSuccess", "success")
             IN  Response(r, IF thrown THEN "thrown" ELSE "ok",
                          [s1 EXCEPT !.itemLoading[r.arg.name] = FALSE])

\* Line 303 and the dialog's v-model: the delete dialog is closed.
CloseDeleteDialog ==
    /\ deleteDialog
    /\ UserEvent([ev |-> "closeDeleteDialog"], [Cur EXCEPT !.deleteDialog = FALSE])

\* Line 12: the upload button, shown in local mode.
OpenUploadDialog ==
    /\ mode = "local"
    /\ ~uploadDialog
    /\ UserEvent([ev |-> "openUploadDialog"], [Cur EXCEPT !.uploadDialog = TRUE])

\* Line 290 and the dialog's v-model: the upload dialog is closed.
CloseUploadDialog ==
    /\ uploadDialog
    /\ UserEvent([ev |-> "closeUploadDialog"], [Cur EXCEPT !.uploadDialog = FALSE])

\* Lines 279-287: v-file-input v-model="uploadFile".
SelectFile ==
    \E f \in Files :
       /\ f # uploadFile
       /\ UserEvent([ev |-> "selectFile", file |-> f], [Cur EXCEPT !.uploadFile = f])

\* As uploadSkill, without the test of line 476.
uploadSkillUnchecked(st) ==
    IF st.uploadFile = "empty_array"
      THEN [st EXCEPT !.uploading = FALSE]
      ELSE Send([st EXCEPT !.uploading = TRUE], "POST /api/skills/upload",
                [file |-> st.uploadFile], <<>>)

\* Lines 475-488: uploadSkill up to its await.
uploadSkill(st) ==
    IF st.uploadFile = "null"
      THEN st
      ELSE IF st.uploadFile = "empty_array"
        THEN [st EXCEPT !.uploading = FALSE]
        ELSE Send([st EXCEPT !.uploading = TRUE], "POST /api/skills/upload",
                  [file |-> st.uploadFile], <<>>)

UploadSkill ==
    /\ mounted
    /\ UserEvent([ev |-> "uploadSkill"], uploadSkill(Cur))

\* Lines 489-498: POST /api/skills/upload answered or failed.
UploadResponse ==
    \E r \in reqs :
       /\ r.url = "POST /api/skills/upload"
       /\ \E res \in ApiResponses :
             LET s0 == Answered(Cur, r)
                 s1 == IF res.thrown
                         THEN showMessage(s0, "skills.uploadFailed", "error")
                         ELSE handleApiResponse(s0, res, "skills.uploadSuccess",
                                 "skills.uploadFailed",
                                 [f |-> "uploadSkill"])
             IN  Response(r, IF res.thrown THEN "thrown" ELSE res.status,
                          [s1 EXCEPT !.uploading = FALSE])

\* Line 649
candidatePromoteLoadingKey(candidateId, stage) == <<candidateId, stage>>

\* Lines 650-651
isCandidatePromoteLoading(st, candidateId, stage) ==
    candidatePromoteLoadingKey(candidateId, stage) \in st.candidatePromoteLoading

\* Lines 652-653
isCandidatePromoting(st, candidateId) ==
    \/ isCandidatePromoteLoading(st, candidateId, "canary")
    \/ isCandidatePromoteLoading(st, candidateId, "stable")

\* Mutant of promoteCandidate: without the early returns of lines 657 and 659.
promoteCandidateUnguarded(st, candidate, stage) ==
    LET candidateId == candidate.id
        loadingKey == candidatePromoteLoadingKey(candidateId, stage)
    IN
    Send([st EXCEPT !.candidatePromoteLoading = @ \cup {loadingKey}],
         "POST /api/skills/neo/promote",
         [candidate_id |-> candidateId, stage |-> stage, sync_to_local |-> TRUE,
          loadingKey |-> loadingKey],
         <<>>)

\* Lines 655-666: promoteCandidate up to its await.
promoteCandidate(st, candidate, stage) ==
    LET candidateId == candidate.id
        loadingKey == candidatePromoteLoadingKey(candidateId, stage)
    IN
    IF candidateId = "" THEN st
    ELSE IF loadingKey \in st.candidatePromoteLoading THEN st
    ELSE Send([st EXCEPT !.candidatePromoteLoading = @ \cup {loadingKey}],
              "POST /api/skills/neo/promote",
              [candidate_id |-> candidateId, stage |-> stage, sync_to_local |-> TRUE,
               loadingKey |-> loadingKey],
              <<>>)

PromoteCandidate ==
    \E i \in DOMAIN neoCandidates, stage \in Stages :
       NeoEvent([ev |-> "promoteCandidate", candidate |-> neoCandidates[i],
                 stage |-> stage],
                promoteCandidate(Cur, neoCandidates[i], stage))

\* Lines 191-210: a click on the Canary or the Stable button of a listed
\* candidate; both buttons are disabled while isCandidatePromoting(item.id).
ClickPromote ==
    \E i \in DOMAIN neoCandidates, stage \in Stages :
       /\ ~isCandidatePromoting(Cur, neoCandidates[i].id)
       /\ UserEvent([ev |-> "promoteCandidate", candidate |-> neoCandidates[i],
                     stage |-> stage],
                    promoteCandidate(Cur, neoCandidates[i], stage))

\* As PromoteResponse, but refreshing only after an answer of status "ok".
PromoteResponseOkOnly ==
    \E r \in reqs :
       /\ r.url = "POST /api/skills/neo/promote"
       /\ \E res \in ApiResponses :
             LET s0 == Answered(Cur, r)
                 s1 == IF res.thrown
                         THEN [showMessage(s0, "skills.neoPromoteFailed", "error")
                                 EXCEPT !.candidatePromoteLoading = @ \ {r.arg.loadingKey}]
                         ELSE IF res.status # "ok"
                           THEN [showMessage(s0, IF res.message # "" THEN res.message
                                                 ELSE "skills.neoPromoteFailed", "error")
                                   EXCEPT !.candidatePromoteLoading = @ \ {r.arg.loadingKey}]
                           ELSE fetchNeoData(showMessage(s0, "skills.neoPromoteSuccess",
                                                         "success"),
                                             <<[f |-> "promote_after_neo",
                                                stage |-> r.arg.stage,
                                                key |-> r.arg.loadingKey]>>)
             IN  Response(r, IF res.thrown THEN "thrown" ELSE res.status, s1)

\* Lines 667-681: POST /api/skills/neo/promote answered or failed.
PromoteResponse ==
    \E r \in reqs :
       /\ r.url = "POST /api/skills/neo/promote"
       /\ \E res \in ApiResponses :
             LET s0 == Answered(Cur, r)
                 s1 == IF res.thrown
                         THEN [showMessage(s0, "skills.neoPromoteFailed", "error")
                                 EXCEPT !.candidatePromoteLoading = @ \ {r.arg.loadingKey}]
                         ELSE LET s2 == IF res.status # "ok"
                                          THEN showMessage(s0,
                                                 IF res.message # "" THEN res.message
                                                 ELSE "skills.neoPromoteFailed", "error")
                                          ELSE showMessage(s0, "skills.neoPromoteSuccess",
                                                           "success")
                              IN  fetchNeoData(s2, <<[f |-> "promote_after_neo",
                                                      stage |-> r.arg.stage,
                                                      key |-> r.arg.loadingKey]>>)
             IN  Response(r, IF res.thrown THEN "thrown" ELSE res.status, s1)

\* The messages of rollbackRelease and of deactivateRelease.
ReleaseMessages(action) ==
    IF action = "deactivate"
      THEN [success |-> "skills.neoDeactivateSuccess", failed |-> "skills.neoDeactivateFailed"]
      ELSE [success |-> "skills.neoRollbackSuccess", failed |-> "skills.neoRollbackFailed"]

\* Lines 684-688: rollbackRelease up to its await.
rollbackRelease(st, release) ==
    Send(st, "POST /api/skills/neo/rollback",
         [release_id |-> release.id, action |-> "rollback"], <<>>)

\* Lines 697-701: deactivateRelease up to its await.
deactivateRelease(st, release) ==
    Send(st, "POST /api/skills/neo/rollback",
         [release_id |-> release.id, action |-> "deactivate"], <<>>)

\* As handleReleaseLifecycleAction, with the two branches exchanged.
handleReleaseLifecycleActionSwapped(st, release) ==
    IF release.is_active THEN rollbackRelease(st, release)
                         ELSE deactivateRelease(st, release)

\* Lines 715-721
handleReleaseLifecycleAction(st, release) ==
    IF release.is_active THEN deactivateRelease(st, release)
                         ELSE rollbackRelease(st, release)

HandleReleaseLifecycleAction ==
    \E i \in DOMAIN neoReleases :
       NeoEvent([ev |-> "handleReleaseLifecycleAction", release |-> neoReleases[i]],
                handleReleaseLifecycleAction(Cur, neoReleases[i]))

\* Lines 689-694 and 702-712: POST /api/skills/neo/rollback answered or
\* failed.
RollbackResponse ==
    \E r \in reqs :
       /\ r.url = "POST /api/skills/neo/rollback"
       /\ \E res \in ApiResponses :
             LET s0 == Answered(Cur, r)
                 msg == ReleaseMessages(r.arg.action)
                 s1 == IF res.thrown
                         THEN showMessage(s0, msg.failed, "error")
                         ELSE handleApiResponse(s0, res, msg.success, msg.failed,
                                                [f |-> "fetchNeoData"])
             IN  Response(r, IF res.thrown THEN "thrown" ELSE res.status, s1)

\* Lines 782-793: refreshCurrentMode up to its await.
refreshCurrentMode(st) ==
    IF st.mode = "neo"
      THEN loadNeoAvailability(st, <<[f |-> "refresh_neo"]>>)
      ELSE fetchSkills(st, <<>>)

\* Line 16: the refresh button.
RefreshCurrentMode ==
    /\ mounted
    /\ UserEvent([ev |-> "refreshCurrentMode"], refreshCurrentMode(Cur))

\* Lines 20-23: the mode toggle; its Neo button is disabled while neoEnabled
\* is false. The change of mode runs watch(mode).
SetMode ==
    \E nextMode \in {"local", "neo"} :
       /\ nextMode # mode
       /\ nextMode = "neo" => neoEnabled
       /\ NeoEvent([ev |-> "setMode", mode |-> nextMode],
                   watchMode([Cur EXCEPT !.mode = nextMode], nextMode))

UINext ==
    \/ Mount
    \/ SkillsResponse
    \/ ConfigResponse
    \/ NeoCandidatesResponse
    \/ NeoReleasesResponse
    \/ ToggleSkill
    \/ UpdateResponse
    \/ ConfirmDelete
    \/ DeleteSkill
    \/ DeleteResponse
    \/ CloseDeleteDialog
    \/ OpenUploadDialog
    \/ CloseUploadDialog
    \/ SelectFile
    \/ UploadSkill
    \/ UploadResponse
    \/ PromoteCandidate
    \/ PromoteResponse
    \/ HandleReleaseLifecycleAction
    \/ RollbackResponse
    \/ RefreshCurrentMode
    \/ SetMode

\* ------------------------------------------------------------------------
\* Makefile: worktree-add (lines 3-18)
\* ------------------------------------------------------------------------

\* Branches of the repository: base branches, and what HEAD can be on.
BranchNames == {"master", "dev"}

\* Names for the new branch.
NewBranchNames == {"feat", "fix"}

\* A make variable that no command line, environment or makefile defines.
Undefined == [defined |-> FALSE, value |-> ""]

\* A make variable defined with value v.
Defined(v) == [defined |-> TRUE, value |-> v]

\* The command lines: `make worktree-add`, `make worktree-add <branch>`,
\* `make worktree-add <branch> <base-branch>`.
GoalLists ==
    {<<"worktree-add">>}
      \cup {<<"worktree-add", b>> : b \in NewBranchNames}
      \cup {<<"worktree-add", b, c>> : b \in NewBranchNames, c \in BranchNames}

\* $(word n,text): the n-th word, empty when there are fewer.
word(n, text) == IF n <= Len(text) THEN text[n] ELSE ""

\* `var ?= value`: assigns only when var is not defined yet; a variable
\* defined with an empty value is defined.
CondAssign(var, value) == IF var.defined THEN var ELSE Defined(value)

\* No make run yet.
MakeInit ==
    /\ MAKECMDGOALS = <<>>
    /\ BRANCH = Undefined
    /\ BASE = Undefined
    /\ HEAD = "master"
    /\ makePc = "shell"
    /\ makeOut = [kind |-> "none"]

\* The user runs make with some goals, possibly with BRANCH=... or BASE=...
\* on the command line or in the environment, on some checked-out branch.
MakeInvoke ==
    /\ makePc = "shell"
    /\ \E goals \in GoalLists,
          b \in {Undefined} \cup {Defined(n) : n \in {"hot"}},
          c \in {Undefined} \cup {Defined(n) : n \in {"dev"}},
          h \in BranchNames :
          /\ MAKECMDGOALS' = goals
          /\ BRANCH' = b
          /\ BASE' = c
          /\ HEAD' = h
    /\ makePc' = "read"
    /\ UNCHANGED <<makeOut, scriptVars, uiVars>>

\* Lines 4-6: the three conditional assignments, in order.
ReadMakefile ==
    /\ makePc = "read"
    /\ BRANCH' = CondAssign(BRANCH, word(2, MAKECMDGOALS))
    /\ BASE' = CondAssign(CondAssign(BASE, word(3, MAKECMDGOALS)), "master")
    /\ makePc' = "recipe"
    /\ UNCHANGED <<MAKECMDGOALS, HEAD, makeOut, scriptVars, uiVars>>

\* Lines 13-18: the recipe of worktree-add. `git worktree add <path> -b
\* <branch> <base>` with an empty <base> has no start point, and git then
\* starts the new branch at HEAD.
WorktreeAdd ==
    /\ makePc = "recipe"
    /\ MAKECMDGOALS[1] = "worktree-add"
    /\ makeOut' = IF BRANCH.value = ""
                    THEN [kind |-> "error", text |-> "Branch name required"]
                    ELSE [kind |-> "worktree", branch |-> BRANCH.value,
                          from |-> IF BASE.value = "" THEN HEAD ELSE BASE.value]
    /\ makePc' = "done"
    /\ UNCHANGED <<MAKECMDGOALS, BRANCH, BASE, HEAD, scriptVars, uiVars>>

MakeNext ==
    \/ MakeInvoke
    \/ ReadMakefile
    \/ WorktreeAdd

\* ------------------------------------------------------------------------
\* Specifications
\* ------------------------------------------------------------------------

\* The script is about to read its first argument and the component has
\* been constructed.
Init == ScriptInit /\ UIInit /\ MakeInit

\* The script alone: the component stays as constructed.
ScriptSpec == Init /\ [][ScriptNext]_vars

\* One run of `make worktree-add`.
MakeSpec == Init /\ [][MakeNext]_vars

\* The shell runs the script's commands one after the other and never stops
\* between two of them.
ScriptFairSpec == ScriptSpec /\ WF_vars(ScriptNext)

\* The component alone: the script is not run.
UISpec ==
    /\ Init
    /\ [][UINext]_vars

\* The component is mounted and its GET requests are answered.
MountNext ==
    \/ Mount
    \/ SkillsResponse
    \/ ConfigResponse
    \/ NeoCandidatesResponse
    \/ NeoReleasesResponse

\* The mounted component, the user enabling and disabling skills.
ToggleNext ==
    \/ MountNext
    \/ ToggleSkill
    \/ UpdateResponse

ToggleSpec ==
    /\ Init
    /\ [][ToggleNext]_vars

\* The mounted component, the user deleting skills.
DeleteNext ==
    \/ MountNext
    \/ ConfirmDelete
    \/ DeleteSkill
    \/ DeleteResponse
    \/ CloseDeleteDialog

DeleteSpec ==
    /\ Init
    /\ [][DeleteNext]_vars

\* The mounted component, the user uploading skills.
UploadNext ==
    \/ MountNext
    \/ OpenUploadDialog
    \/ CloseUploadDialog
    \/ SelectFile
    \/ UploadSkill
    \/ UploadResponse

UploadSpec ==
    /\ Init
    /\ [][UploadNext]_vars

\* The mounted component, the user promoting Neo candidates.
PromoteNext ==
    \/ MountNext
    \/ PromoteCandidate
    \/ PromoteResponse

PromoteSpec ==
    /\ Init
    /\ [][PromoteNext]_vars

\* The component after mount in a sandbox runtime with Neo enabled, every
\* request of the mount answered: two skills, two candidates (one without
\* id) and two releases are listed; `file` is the file selected for
\* upload, `toDelete` the skill the delete dialog is about, `events` the number
\* of user events so far and `ev` the last event.
Settled(file, toDelete, events, ev) ==
    /\ mode = "local"
    /\ skills = <<[gen |-> 1, name |-> "a"], [gen |-> 1, name |-> "s"]>>
    /\ active = ([gen |-> 1, name |-> "a"] :> FALSE @@ [gen |-> 1, name |-> "s"] :> TRUE)
    /\ loading = FALSE
    /\ runtime = "sandbox"
    /\ sandboxCache = [ready |-> TRUE, count |-> 1]
    /\ uploading = FALSE
    /\ uploadDialog = FALSE
    /\ uploadFile = file
    /\ itemLoading = [n \in SkillNames |-> FALSE]
    /\ deleteDialog = (toDelete # NoSkill)
    /\ deleting = FALSE
    /\ skillToDelete = toDelete
    /\ snackbar = [show |-> FALSE, message |-> "", color |-> "success"]
    /\ neoLoading = FALSE
    /\ neoCandidates = <<[id |-> "c1"], [id |-> ""]>>
    /\ neoReleases = <<[id |-> "r1", is_active |-> TRUE], [id |-> "r2", is_active |-> FALSE]>>
    /\ candidatePromoteLoading = {}
    /\ neoEnabled = TRUE
    /\ neoUnavailableMessage = "skills.neoRuntimeRequired"
    /\ reqs = {}
    /\ joins = <<>>
    /\ nextId = 1
    /\ mounted = TRUE
    /\ calls = events
    /\ neoCalls = 0
    /\ last = ev
    /\ latestOk = [id |-> 0, some |-> TRUE,
                   payload |-> [skills |-> <<[name |-> "a", active |-> FALSE],
                                            [name |-> "s", active |-> TRUE]>>,
                               runtime |-> "sandbox", array |-> FALSE,
                               cache |-> [ready |-> TRUE, count |-> 1]]]
    /\ confirmed = [passed |-> toDelete.name, selected |-> toDelete.name]

\* Every request of the mount is answered and the user has done nothing yet.
\* MountSpec reaches this state.
MountSettled ==
    Settled("null", NoSkill, 0,
            [ev |-> "response", url |-> "GET /api/skills/neo/releases",
            req |-> [id |-> 6, url |-> "GET /api/skills/neo/releases",
                     arg |-> [none |-> TRUE],
                     after |-> <<[f |-> "join", gid |-> 4]>>],
            out |-> "ok"])

\* After that the user selected a file for upload (lines 279-287) and asked
\* to delete skill a (lines 523-530): the state two user events after
\* MountSettled.
OperationsReady ==
    Settled("skill.zip", [gen |-> 1, name |-> "a"], 2,
            [ev |-> "confirmDelete", skill |-> [gen |-> 1, name |-> "a"]])

MountSettledInit == ScriptInit /\ MakeInit /\ MountSettled

\* The local panel after mount, the user enabling, disabling, deleting and
\* downloading the listed skills.
LocalPanelNext ==
    \/ ToggleSkill
    \/ UpdateResponse
    \/ ConfirmDelete
    \/ DeleteSkill
    \/ DeleteResponse
    \/ DownloadSkill
    \/ DownloadResponse
    \/ SkillsResponse

LocalPanelSpec ==
    /\ MountSettledInit
    /\ [][LocalPanelNext]_vars

\* The answer, or the failure, of a request in flight.
Settle ==
    \/ SkillsResponse
    \/ UpdateResponse
    \/ DeleteResponse
    \/ DownloadResponse
    \/ UploadResponse
    \/ PromoteResponse
    \/ NeoCandidatesResponse
    \/ NeoReleasesResponse

\* The component with a file selected and a skill to delete, the user running
\* the operations that set a loading flag.
LoadingNext ==
    \/ RefreshCurrentMode
    \/ ToggleSkill
    \/ DeleteSkill
    \/ DownloadSkill
    \/ UploadSkill
    \/ ClickPromote
    \/ Settle

LoadingInit == ScriptInit /\ MakeInit /\ OperationsReady

LoadingSpec ==
    /\ LoadingInit
    /\ [][LoadingNext]_vars

\* Settle can happen exactly when a request is in flight.
SettleEnabled == (ENABLED <<Settle>>_vars) <=> (reqs # {})

\* Every HTTP request eventually settles: weak fairness of Settle, that is
\* WF_vars(Settle), written out with SettleEnabled for its ENABLED.
LoadingFairSpec ==
    /\ LoadingSpec
    /\ ([]<>(reqs = {}) \/ []<><<Settle>>_vars)

\* The Neo panel after mount, the user clicking the promote buttons.
NeoPanelNext ==
    \/ ClickPromote
    \/ PromoteResponse
    \/ NeoCandidatesResponse
    \/ NeoReleasesResponse
    \/ SkillsResponse

NeoPanelSpec ==
    /\ MountSettledInit
    /\ [][NeoPanelNext]_vars

\* The mounted component, the user deactivating and rolling back releases.
ReleaseNext ==
    \/ MountNext
    \/ HandleReleaseLifecycleAction
    \/ RollbackResponse

ReleaseSpec ==
    /\ Init
    /\ [][ReleaseNext]_vars

\* The mounted component, the user refreshing the local panel.
FetchNext ==
    \/ MountNext
    \/ RefreshCurrentMode

FetchSpec ==
    /\ Init
    /\ [][FetchNext]_vars

\* The mounted component, the user switching between the local and the Neo
\* panel.
ModeNext ==
    \/ MountNext
    \/ SetMode

ModeSpec ==
    /\ Init
    /\ [][ModeNext]_vars

\* The component is mounted and left alone.
MountSpec ==
    /\ Init
    /\ [][MountNext]_vars

\* ------------------------------------------------------------------------
\* SkillsSection.vue: claims
\* ------------------------------------------------------------------------

\* The requests this step sent to url.
SentTo(url) == {r \in reqs' \ reqs : r.url = url}

\* This step is the answer (or the failure) of a request to url.
Responded(url) ==
    /\ last'.ev = "response"
    /\ last'.url = url
    /\ last'.req \in reqs
    /\ last'.req \notin reqs'

\* This step is a call of the handler `name`.
Called(name) ==
    /\ last'.ev = name
    /\ calls' = calls + 1 \/ neoCalls' = neoCalls + 1

\* This step ends with an error message on display.
ErrorShown == snackbar'.show /\ snackbar'.color = "error"

C7_Call ==
    (Called("toggleSkill") /\ ~isSandboxPresetSkill(last'.skill)) =>
       /\ active'[last'.skill] = active[last'.skill]
       /\ \E r \in SentTo("POST /api/skills/update") :
             /\ r.arg.name = last'.skill.name
             /\ r.arg.skill = last'.skill
             /\ r.arg.active = ~active[last'.skill]

C7_Response ==
    Responded("POST /api/skills/update") =>
       LET r == last'.req
       IN  /\ last'.out = "ok" => active'[r.arg.skill] = r.arg.active
           /\ last'.out # "ok" => /\ active'[r.arg.skill] = active[r.arg.skill]
                                  /\ ErrorShown

C7_Frame ==
    \A o \in DOMAIN active \cap DOMAIN active' :
       active'[o] # active[o] =>
          /\ Responded("POST /api/skills/update")
          /\ last'.out = "ok"
          /\ last'.req.arg.skill = o

\* C7: toggleSkill asks the backend for the negation of skill.active and
\* leaves skill.active as it is; skill.active takes the requested value when
\* and only when POST /api/skills/update answers with status "ok"; after any
\* other answer or a thrown error it keeps its value and an error message is
\* shown.
C7_ToggleConfirmedByBackend == [][C7_Call /\ C7_Response /\ C7_Frame]_vars

\* C7's case: an update was answered "ok" and the skill has the value asked.
C7_Witness ==
    /\ last.ev = "response"
    /\ last.url = "POST /api/skills/update"
    /\ last.out = "ok"
    /\ active[last.req.arg.skill] = last.req.arg.active

\* A delete request is sent by deleteSkill only, only when sel is a skill,
\* and with the name sel.
C8_Sends(sel) ==
    \A r \in SentTo("POST /api/skills/delete") :
       /\ Called("deleteSkill")
       /\ sel # "null"
       /\ r.arg.name = sel

\* deleteSkill sends one request once a skill is selected.
C8_Selected ==
    (Called("deleteSkill") /\ confirmed.selected # "null") =>
       \E r \in SentTo("POST /api/skills/delete") : reqs' = reqs \cup {r}

C8_Response ==
    Responded("POST /api/skills/delete") =>
       /\ last'.out = "ok" => /\ ~deleteDialog'
                              /\ SentTo("GET /api/skills") # {}
       /\ last'.out # "ok" => /\ deleteDialog' = deleteDialog
                              /\ SentTo("GET /api/skills") = {}
                              /\ ErrorShown

\* C8 as stated: the delete request carries the name of the skill most
\* recently passed to confirmDelete.
C8_Original == [][C8_Sends(confirmed.passed) /\ C8_Response]_vars

\* C8: deleteSkill sends POST /api/skills/delete only when a skill was
\* selected through confirmDelete, and with the name of the skill most
\* recently passed to confirmDelete that was not a sandbox preset skill; on
\* status "ok" the delete dialog closes and the skills list is refetched, on
\* any other answer or a thrown error the dialog is left as it is, the list
\* is not refetched and an error message is shown.
C8_ConfirmThenDelete ==
    [][C8_Sends(confirmed.selected) /\ C8_Selected /\ C8_Response]_vars

\* C8's case: a delete of the selected skill was answered "ok".
C8_Witness ==
    /\ last.ev = "response"
    /\ last.url = "POST /api/skills/delete"
    /\ last.out = "ok"
    /\ last.req.arg.name = confirmed.selected
    /\ ~deleteDialog
    /\ \E r \in reqs : r.url = "GET /api/skills"

C9_Call ==
    Called("uploadSkill") =>
       IF uploadFile \in {"null", "empty_array"}
         THEN reqs' = reqs
         ELSE \E r \in SentTo("POST /api/skills/upload") :
                 r.arg.file = uploadFile /\ reqs' = reqs \cup {r}

C9_Response ==
    Responded("POST /api/skills/upload") =>
       /\ last'.out = "ok" => /\ ~uploadDialog'
                              /\ uploadFile' = "null"
                              /\ SentTo("GET /api/skills") # {}
       /\ last'.out # "ok" => /\ uploadDialog' = uploadDialog
                              /\ uploadFile' = uploadFile
                              /\ SentTo("GET /api/skills") = {}
                              /\ ErrorShown

\* C9: uploadSkill sends no request when no file is selected; when POST
\* /api/skills/upload answers with status "ok" the upload dialog is closed,
\* the selected file is cleared and the skills list is refetched; after any
\* other answer or a thrown error the dialog and the selected file are left
\* as they are and an error message is shown.
C9_UploadOutcome == [][C9_Call /\ C9_Response]_vars

\* C9's case: an upload was answered "ok".
C9_Witness ==
    /\ last.ev = "response"
    /\ last.url = "POST /api/skills/upload"
    /\ last.out = "ok"
    /\ ~uploadDialog
    /\ uploadFile = "null"
    /\ \E r \in reqs : r.url = "GET /api/skills"

C10_Call ==
    Called("promoteCandidate") =>
       LET id == last'.candidate.id
           stage == last'.stage
       IN  IF id = "" \/ candidatePromoteLoadingKey(id, stage) \in candidatePromoteLoading
             THEN reqs' = reqs
             ELSE \E r \in SentTo("POST /api/skills/neo/promote") :
                     /\ r.arg.candidate_id = id
                     /\ r.arg.stage = stage
                     /\ r.arg.sync_to_local = TRUE
                     /\ reqs' = reqs \cup {r}

C10_Response ==
    Responded("POST /api/skills/neo/promote") =>
       IF last'.out = "thrown"
         THEN reqs' = reqs \ {last'.req} /\ ErrorShown
         ELSE /\ SentTo("GET /api/skills/neo/candidates") # {}
              /\ SentTo("GET /api/skills/neo/releases") # {}
              /\ SentTo("GET /api/skills") = {}

\* The fetchNeoData awaited by a promoteCandidate (group gid) ends in this
\* step.
PromoteRefreshEnds(gid) ==
    /\ joins[gid].kind = "fetchNeoData"
    /\ ~joins[gid].done
    /\ joins[gid].after # <<>>
    /\ joins[gid].after[1].f = "promote_after_neo"
    /\ gid \notin DOMAIN joins' \/ joins'[gid].done

C10_Afterwards ==
    /\ \A gid \in DOMAIN joins :
          PromoteRefreshEnds(gid) =>
             (SentTo("GET /api/skills") # {} <=> joins[gid].after[1].stage = "stable")
    /\ SentTo("GET /api/skills") # {} =>
          \/ last'.ev = "onMounted"
          \/ \E gid \in DOMAIN joins : PromoteRefreshEnds(gid)

\* C10: promoteCandidate posts the candidate id, the stage and
\* sync_to_local = true to /api/skills/neo/promote; after any answer it
\* refetches the Neo candidates and releases, and when that refresh has ended
\* it refetches the skills list if and only if the stage is "stable"; when the
\* request throws nothing is refetched and an error message is shown.
C10_PromoteRefresh == [][C10_Call /\ C10_Response /\ C10_Afterwards]_vars

\* C10's case: after a promotion to stable and the Neo refresh, the skills
\* list is being refetched.
C10_Witness ==
    \E r \in reqs :
       /\ r.url = "GET /api/skills"
       /\ r.after # <<>>
       /\ r.after[1].f = "promote_finally"


C11_Call ==
    Called("handleReleaseLifecycleAction") =>
       \E r \in SentTo("POST /api/skills/neo/rollback") :
          /\ r.arg.release_id = last'.release.id
          /\ r.arg.action = IF last'.release.is_active THEN "deactivate" ELSE "rollback"
          /\ reqs' = reqs \cup {r}

\* What a release action leaves alone whatever its answer.
C11_Kept ==
    UNCHANGED <<mode, skills, active, loading, runtime, sandboxCache, neoCandidates,
                neoReleases, candidatePromoteLoading, neoEnabled>>

C11_Response ==
    Responded("POST /api/skills/neo/rollback") =>
       LET r == last'.req
           msg == ReleaseMessages(r.arg.action)
       IN  /\ C11_Kept
           /\ last'.out = "ok" =>
                 /\ snackbar' = [show |-> TRUE, message |-> msg.success, color |-> "success"]
                 /\ neoLoading'
                 /\ SentTo("GET /api/skills/neo/candidates") # {}
                 /\ SentTo("GET /api/skills/neo/releases") # {}
           /\ last'.out # "ok" =>
                 /\ snackbar'.show /\ snackbar'.color = "error"
                 /\ snackbar'.message \in {msg.failed, "server_message"}
                 /\ last'.out = "thrown" => snackbar'.message = msg.failed
                 /\ neoLoading' = neoLoading
                 /\ reqs' = reqs \ {r}

\* C11: handleReleaseLifecycleAction deactivates a release whose is_active is
\* true and rolls back one whose is_active is false; both post the release id
\* to /api/skills/neo/rollback and have the same effect but for the messages
\* they show; the Neo candidates and releases are refetched when the answer
\* has status "ok" and only then.
C11_ReleaseLifecycle == [][C11_Call /\ C11_Response]_vars

\* C11's case: the deactivation of an active release was answered "ok" and
\* the refresh is on its way.
C11_Witness ==
    /\ last.ev = "response"
    /\ last.url = "POST /api/skills/neo/rollback"
    /\ last.out = "ok"
    /\ last.req.arg.action = "deactivate"
    /\ snackbar.message = "skills.neoDeactivateSuccess"
    /\ \E r \in reqs : r.url = "GET /api/skills/neo/releases"


\* One of the two requests of onMounted is in flight.
MountPending ==
    \E r \in reqs : r.url \in {"GET /api/skills", "GET /api/config/get"}

\* This step starts the fetch of the Neo candidates and releases.
NeoFetchStarts ==
    /\ SentTo("GET /api/skills/neo/candidates") # {}
    /\ SentTo("GET /api/skills/neo/releases") # {}

C12_Parallel ==
    (~mounted /\ mounted') =>
       /\ SentTo("GET /api/skills") # {}
       /\ SentTo("GET /api/config/get") # {}

C12_OnlyAfter ==
    /\ MountPending' =>
          /\ SentTo("GET /api/skills/neo/candidates") = {}
          /\ SentTo("GET /api/skills/neo/releases") = {}
    /\ (MountPending /\ ~MountPending') => (NeoFetchStarts <=> neoEnabled')

C12_Availability ==
    Responded("GET /api/config/get") =>
       neoEnabled' = /\ last'.out = "ok"
                     /\ last'.data.computer_use_runtime = "sandbox"
                     /\ last'.data.booter = "shipyard_neo"

\* C12: mounting sends GET /api/skills and GET /api/config/get in one step;
\* no Neo fetch starts while either is in flight; the step that ends the
\* later of the two starts the Neo fetch if and only if neoEnabled is then
\* true; and neoEnabled is what the availability answer says, whatever became
\* of the skills fetch.
C12_MountOrder == [][C12_Parallel /\ C12_OnlyAfter /\ C12_Availability]_vars

\* C12's case: the skills fetch failed, the availability check enabled Neo
\* and the Neo fetch is on its way.
C12_Witness ==
    /\ snackbar.message = "skills.loadFailed"
    /\ neoEnabled
    /\ \E r \in reqs : r.url = "GET /api/skills/neo/candidates"


\* C13: when GET /api/skills throws, the step that handles the failure leaves
\* the skills list (the objects and their active flags), runtime and
\* sandboxCache as they were, shows the error message skills.loadFailed and
\* ends with loading false.
C13_FetchFailureSafe ==
    [][(Responded("GET /api/skills") /\ last'.out = "thrown") =>
          /\ skills' = skills
          /\ \A i \in DOMAIN skills : active'[skills[i]] = active[skills[i]]
          /\ runtime' = runtime
          /\ sandboxCache' = sandboxCache
          /\ snackbar' = [show |-> TRUE, message |-> "skills.loadFailed", color |-> "error"]
          /\ ~loading']_vars

\* C13's case: a refetch failed while a list from the sandbox runtime was
\* shown, and the list is still there.
C13_Witness ==
    /\ last.ev = "response"
    /\ last.url = "GET /api/skills"
    /\ last.out = "thrown"
    /\ skills # <<>>
    /\ runtime = "sandbox"
    /\ sandboxCache.ready
    /\ ~loading


\* C14: neoLoading is true in every state in which a request for the Neo
\* candidates or for the Neo releases is in flight.
C14_NeoLoadingCoversRequests ==
    (\E r \in reqs : r.url \in {"GET /api/skills/neo/candidates",
                                "GET /api/skills/neo/releases"})
       => neoLoading

\* C15: loading is true in every state in which a GET /api/skills is in
\* flight.
C15_LoadingCoversRequests ==
    (\E r \in reqs : r.url = "GET /api/skills") => loading


\* C16: when no GET /api/skills is in flight, the skills list is the payload
\* of the most recently issued request among those that were answered.
C16_LatestRequestWins ==
    (latestOk.some /\ ~\E r \in reqs : r.url = "GET /api/skills") =>
       /\ [i \in DOMAIN skills |-> skills[i].name]
             = [i \in DOMAIN latestOk.payload.skills |-> latestOk.payload.skills[i].name]
       /\ runtime = IF latestOk.payload.array THEN "local" ELSE latestOk.payload.runtime


\* C17: run_smoke_test fails fast: the step in which the process is found to
\* have exited is a polling iteration whose probe failed, and in that same
\* step the function returns 1 (which ends the script with status 1 under
\* set -e); once the process was found exited, no further probe is made.
C17_FailFast ==
    [][ /\ (app # "exited" /\ app' = "exited") =>
              /\ pc = "smoke_poll"
              /\ probes' = probes + 1
              /\ probeOk' = probeOk
              /\ smokeRet = -1 /\ smokeRet' = 1
              /\ pc' = "exited" /\ status' = 1
        /\ (app = "exited") => (probes' = probes /\ app' = "exited") ]_vars

\* C17 witness: the process was found exited in the third iteration, after
\* two iterations in which it was still alive; run_smoke_test returned 1.
C17_Witness ==
    /\ app = "exited"
    /\ probes = 3
    /\ ~probeOk
    /\ smokeRet = 1
    /\ status = 1

\* C18: once run_smoke_test has returned after starting the application
\* (success, early exit, or timeout), the application process is not
\* running and the temporary log file is removed.
C18_CleanOnReturn ==
    (smokeRet # -1 /\ app # "none") =>
        /\ app \in {"killed", "exited"}
        /\ ~smoke_log

\* C18 witness: the timeout path: 60 failed probes with the process alive,
\* then kill, wait, rm -f and return 1.
C18_Witness ==
    /\ smokeRet = 1
    /\ probes = MaxProbes
    /\ ~probeOk
    /\ app = "killed"
    /\ ~smoke_log


\* C19: `make worktree-add` without a branch fails with 'Branch name
\* required'; with a branch and no base branch the new branch is created
\* from master; with a base branch it is created from that base.
C19_WorktreeAddBase ==
    (makePc = "done") =>
       LET branch == word(2, MAKECMDGOALS)
           base   == word(3, MAKECMDGOALS)
       IN  /\ (branch = "" /\ BRANCH.value = "") =>
                  makeOut = [kind |-> "error", text |-> "Branch name required"]
           /\ (branch # "" /\ base = "" /\ BASE.value = "") =>
                  (makeOut.kind = "worktree" /\ makeOut.from = "master")
           /\ (branch # "" /\ base # "") =>
                  (makeOut.kind = "worktree" /\ makeOut.from = BASE.value)


\* C20: between handler steps, mode = "neo" implies neoEnabled. Mode becomes
\* "neo" only by the toggle while neoEnabled is true, and an availability
\* check that ends with neoEnabled false (a failed config request included)
\* while mode is "neo" sets mode to "local" in the same step.
C20_Select ==
    (mode # "neo" /\ mode' = "neo") => (neoEnabled /\ Called("setMode"))

C20_Reset ==
    (Responded("GET /api/config/get") /\ mode = "neo") =>
       /\ neoEnabled' = (/\ last'.out = "ok"
                         /\ last'.data.computer_use_runtime = "sandbox"
                         /\ last'.data.booter = "shipyard_neo")
       /\ mode' = IF neoEnabled' THEN "neo" ELSE "local"

C20_NeoModeOnlyWhenEnabled ==
    /\ [](mode = "neo" => neoEnabled)
    /\ [][C20_Select /\ C20_Reset]_vars

\* C20 witness: the user selected Neo mode, and the config request of the
\* availability check that followed failed: Neo is disabled and the mode is
\* back to local.
C20_Witness ==
    /\ neoCalls = 1
    /\ last.ev = "response"
    /\ last.url = "GET /api/config/get"
    /\ last.out = "thrown"
    /\ last.req.after = <<[f |-> "watch_neo"]>>
    /\ ~neoEnabled
    /\ mode = "local"


\* The promote requests in flight.
PromoteReqs == {r \in reqs : r.url = "POST /api/skills/neo/promote"}

\* C21: for every candidate at most one promote request is in flight; while
\* one is in flight, whatever its stage, isCandidatePromoting is true for the
\* candidate, so both its buttons are disabled; promoteCandidate called for
\* a pair whose request is in flight changes nothing; no promote request
\* has an empty candidate id, and promoteCandidate with a candidate without
\* id changes nothing.
C21_Inv ==
    /\ \A r1, r2 \in PromoteReqs :
          r1.arg.candidate_id = r2.arg.candidate_id => r1 = r2
    /\ \A r \in PromoteReqs :
          /\ isCandidatePromoteLoading(Cur, r.arg.candidate_id, r.arg.stage)
          /\ isCandidatePromoting(Cur, r.arg.candidate_id)
          /\ r.arg.candidate_id # ""
    /\ \A c \in Candidates, stage \in Stages :
          (isCandidatePromoteLoading(Cur, c.id, stage) \/ c.id = "") =>
             promoteCandidate(Cur, c, stage) = Cur

\* A call of promoteCandidate sends one request for its candidate and stage,
\* or none when the candidate has no id.
C21_Step ==
    Called("promoteCandidate") =>
       IF last'.candidate.id = ""
         THEN reqs' = reqs /\ candidatePromoteLoading' = candidatePromoteLoading
         ELSE \E r \in PromoteReqs' :
                 /\ reqs' = reqs \cup {r}
                 /\ r \notin reqs
                 /\ r.arg.candidate_id = last'.candidate.id
                 /\ r.arg.stage = last'.stage

C21_OnePromoteInFlight == []C21_Inv /\ [][C21_Step]_vars

\* C21 witness: a promote request of candidate c1 is in flight, its buttons
\* are disabled, and the user has just clicked a button of the candidate
\* without id: no request was sent for it.
C21_Witness ==
    /\ calls = 2
    /\ last.ev = "promoteCandidate"
    /\ last.candidate.id = ""
    /\ \E r \in PromoteReqs : r.arg.candidate_id = "c1" /\ r.arg.stage = "stable"
    /\ Cardinality(PromoteReqs) = 1
    /\ isCandidatePromoting(Cur, "c1")


\* The keys of candidatePromoteLoading.
PromoteKeys == {candidatePromoteLoadingKey(c.id, stage) : c \in Candidates, stage \in Stages}

\* C22: when every request eventually settles, every loading flag that is
\* true is eventually false again, whatever the requests answer.
C22_FlagsEventuallyFalse ==
    /\ loading ~> ~loading
    /\ uploading ~> ~uploading
    /\ deleting ~> ~deleting
    /\ neoLoading ~> ~neoLoading
    /\ \A name \in SkillNames : itemLoading[name] ~> ~itemLoading[name]
    /\ \A key \in PromoteKeys :
          (key \in candidatePromoteLoading) ~> (key \notin candidatePromoteLoading)

\* C22 witness: the last request of a promotion to stable, the refetch of
\* the skills, has failed; the promotion's flag and the other flags are
\* false again.
C22_Witness ==
    /\ last.ev = "response"
    /\ last.url = "GET /api/skills"
    /\ last.out = "thrown"
    /\ last.req.after = <<[f |-> "promote_finally",
                           key |-> candidatePromoteLoadingKey("c1", "stable")]>>
    /\ candidatePromoteLoading = {}
    /\ ~loading /\ ~neoLoading /\ ~uploading /\ ~deleting
    /\ \A name \in SkillNames : ~itemLoading[name]


\* The requests that change or export a skill.
SkillRequestUrls ==
    {"POST /api/skills/update", "POST /api/skills/delete", "GET /api/skills/download"}

\* C23: sandbox preset skills are read-only: no update, delete or download
\* request is ever in flight, or is ever sent, for a skill whose source_type
\* is sandbox_only; toggleSkill, confirmDelete and downloadSkill called with
\* such a skill show the read-only warning and leave skill.active,
\* skillToDelete, deleteDialog and itemLoading as they were.
C23_NoRequest ==
    \A r \in reqs :
       r.url \in SkillRequestUrls => SourceType(r.arg.name) # "sandbox_only"

C23_Refused ==
    (/\ \/ Called("toggleSkill")
        \/ Called("confirmDelete")
        \/ Called("downloadSkill")
     /\ isSandboxPresetSkill(last'.skill)) =>
       /\ snackbar' = [show |-> TRUE, message |-> "skills.sandboxPresetReadonly",
                       color |-> "warning"]
       /\ active'[last'.skill] = active[last'.skill]
       /\ skillToDelete' = skillToDelete
       /\ deleteDialog' = deleteDialog
       /\ itemLoading' = itemLoading
       /\ reqs' = reqs

C23_Sent ==
    \A r \in reqs' \ reqs :
       r.url \in SkillRequestUrls =>
          /\ SourceType(r.arg.name) # "sandbox_only"
          /\ Called("toggleSkill") \/ Called("deleteSkill") \/ Called("downloadSkill")

C23_SandboxPresetReadOnly == []C23_NoRequest /\ [][C23_Refused /\ C23_Sent]_vars

\* C23 witness: skill a is being updated and is chosen for deletion; the
\* download of the sandbox preset skill s has just been refused.
C23_Witness ==
    /\ last.ev = "downloadSkill"
    /\ isSandboxPresetSkill(last.skill)
    /\ snackbar.message = "skills.sandboxPresetReadonly"
    /\ \E r \in reqs : r.url = "POST /api/skills/update" /\ r.arg.name = "a"
    /\ skillToDelete.name = "a"
    /\ deleteDialog
    /\ itemLoading = [a |-> TRUE, s |-> FALSE]

====
